---- MODULE Spec2Model ----
(***************************************************************************)
(* A model of gokit's bigcache: the record codec (encoding.go), the byte   *)
(* queue (container/bytesqyeye/bytes_queue.go), the cache shard            *)
(* (cache/bigcache/shard.go) and the cache front (bigcache.go).            *)
(*                                                                         *)
(* Bytes are naturals in 0..255.  A Go []byte or string is a sequence of   *)
(* bytes; the arena of a queue is a function from the Go index 0..cap-1 to *)
(* a byte, so that every offset of the model is the offset of the code.    *)
(***************************************************************************)
EXTENDS Integers, Sequences, FiniteSets, TLC

VARIABLES
    cdc,        \* codec harness: the inputs of wrapEntry and the frame built
    queue,      \* queue harness: a BytesQueue used on its own
    pushed,     \* queue harness (ghost): frames pushed and not yet popped, oldest first
    qlast,      \* queue harness (ghost): what the last queue operation did
    grown,      \* queue harness (ghost): allocateAdditionalMemory has run
    qsteps,     \* queue harness (ghost): the number of operations so far
    cfg,        \* cache: the configuration the shard was built with
    shard,      \* cache: the one shard (hashmap, entries, stats, hashmapStats)
    now,        \* cache: clock.Epoch(), in seconds
    crashed,    \* cache: a handler has panicked
    last,       \* cache (ghost): the last call, its arguments and what it returned
    stored,     \* cache (ghost): per key, the value the calls so far have written
    fresh,      \* cache (ghost): the last Set that no later write has followed
    deleted,    \* cache (ghost): the keys deleted and not written since
    ops,        \* cache (ghost): the number of operations so far
    budget,     \* cache (ghost): the number of operations of a run
    held,       \* cache (ghost): the slice the last successful Get handed out
    bigcache,   \* front: the BigCache newBigCache returns (shards, shardMask, close)
    cleaner,    \* front: the clean-up goroutine, its ticker and its context
    clk,        \* front: clock.Epoch(), in seconds
    flast,      \* front (ghost): the last call on the front and what it did
    fsteps,     \* front (ghost): the number of calls and events so far
    orChans,    \* Or: the channels, inputs first, each open, offered or closed
    orGo,       \* Or: the goroutines the calls of Or have started
    orCall,     \* Or: the call under study, its inputs and its result
    group,      \* Group: the actors and the channel their goroutines send to
    runner,     \* Group: the frame of Run (ghost: the first execute to return)
    conc,       \* threads: the shard they share, its configuration and the time
    lock,       \* threads: the shard's sync.RWMutex, its writer and its readers
    threads,    \* threads: per thread, the call it is in and its local variables
    audit,      \* threads (ghost): the values written, the deletions, the last return
    limiter,    \* limiter: the state pointer of the atomicLimiter and its clock
    takers      \* limiter: per goroutine, the call of Take it is in and its locals

vars == <<cdc, queue, pushed, qlast, grown, qsteps,
          cfg, shard, now, crashed, last, stored, fresh, deleted, ops, budget, held,
          bigcache, cleaner, clk, flast, fsteps,
          orChans, orGo, orCall, group, runner, conc, lock, threads, audit,
          limiter, takers>>

codecVars == <<cdc>>
queueVars == <<queue, pushed, qlast, grown, qsteps>>
cacheVars == <<cfg, shard, now, crashed, last, stored, fresh, deleted, ops, budget, held>>
frontVars == <<bigcache, cleaner, clk, flast, fsteps>>
orVars == <<orChans, orGo, orCall>>
\* the goroutine models, which share no state with the cache
groupVars == <<group, runner>>
concVars == <<conc, lock, threads, audit>>
limVars == <<limiter, takers>>
procVars == <<orVars, groupVars, concVars, limVars>>

Min(a, b) == IF a < b THEN a ELSE b

RECURSIVE Pow(_, _)
Pow(b, e) == IF e = 0 THEN 1 ELSE b * Pow(b, e - 1)

\* len(array) of an arena
ArrayLen(a) == Cardinality(DOMAIN a)

\* make([]byte, n): n zero bytes
Zeros(n) == [i \in 1..n |-> 0]

\* a Go slice expression s[lo:hi] of a sequence (lo, hi are Go indices)
SliceSeq(s, lo, hi) == [k \in 1..(hi - lo) |-> s[lo + k]]

(***************************************************************************)
(* encoding/binary                                                         *)
(***************************************************************************)
\* The model's uint64 values (timestamps, hashes) are below 2^31, the range of
\* the model checker's integers; their bytes 5..8 are zero.
\* binary.LittleEndian.PutUint64 of a uint64
PutUint64(v) == [i \in 1..8 |-> IF i <= 4 THEN (v \div Pow(256, i - 1)) % 256 ELSE 0]

\* one byte of a little-endian number, weighted by its position
LEByte(b, i) == IF b[i] = 0 THEN 0 ELSE b[i] * Pow(256, i - 1)

\* binary.LittleEndian.Uint64 of the first 8 bytes of b
Uint64(b) ==
    LEByte(b, 1) + LEByte(b, 2) + LEByte(b, 3) + LEByte(b, 4)
        + LEByte(b, 5) + LEByte(b, 6) + LEByte(b, 7) + LEByte(b, 8)

\* binary.LittleEndian.PutUint16 of a uint16
PutUint16(v) == [i \in 1..2 |-> (v \div Pow(256, i - 1)) % 256]

\* binary.LittleEndian.Uint16 of the first 2 bytes of b
Uint16(b) == b[1] + 256 * b[2]

\* binary.PutUvarint: 7 bits a byte, low group first, high bit = "more"
RECURSIVE PutUvarint(_)
PutUvarint(x) ==
    IF x < 128 THEN <<x>> ELSE <<(x % 128) + 128>> \o PutUvarint(x \div 128)

(***************************************************************************)
(* The record codec (encoding.go)                                          *)
(***************************************************************************)
timestampSizeInBytes == 8
hashSizeInBytes == 8
keySizeInBytes == 2
headersSizeInBytes == timestampSizeInBytes + hashSizeInBytes + keySizeInBytes

\* uint16(keyLength): the conversion keeps the low 16 bits
ToUint16(n) == n % 65536

wrapEntry(timestamp, hash, key, entry) ==
    PutUint64(timestamp) \o PutUint64(hash) \o PutUint16(ToUint16(Len(key)))
        \o key \o entry

appendToWrappedEntry(timestamp, wrappedEntry, entry) ==
    PutUint64(timestamp)
        \o SliceSeq(wrappedEntry, timestampSizeInBytes, Len(wrappedEntry))
        \o entry

\* the key length field of a frame
keyLengthOf(data) ==
    Uint16(SliceSeq(data, timestampSizeInBytes + hashSizeInBytes, headersSizeInBytes))

\* headersSizeInBytes+length is uint16 arithmetic: the constant takes the
\* type of length, and the sum wraps at 2^16
valueOffsetOf(data) == ToUint16(headersSizeInBytes + keyLengthOf(data))

\* what a slice expression out of range (a run-time panic) yields in the model
Panic == <<-1>>

\* a variant of readEntry's result that is a slice of data itself
readEntrySharesData == "data"

\* the memory behind the slice readEntry returns: dst := make([]byte, ...)
\* followed by copy(dst, ...) is an array of its own ("heap"), where
\* data[headersSizeInBytes+length:] would be a slice of data ("data")
readEntryMemory == "heap"

readEntry(data) ==
    IF valueOffsetOf(data) > Len(data) THEN Panic
    ELSE SliceSeq(data, valueOffsetOf(data), Len(data))

readTimestampFromEntry(data) == Uint64(data)

readKeyFromEntry(data) ==
    IF valueOffsetOf(data) < headersSizeInBytes \/ valueOffsetOf(data) > Len(data)
    THEN Panic
    ELSE SliceSeq(data, headersSizeInBytes, valueOffsetOf(data))

compareKeyFromEntry(data, key) ==
    IF valueOffsetOf(data) < headersSizeInBytes \/ valueOffsetOf(data) > Len(data)
    THEN FALSE
    ELSE SliceSeq(data, headersSizeInBytes, valueOffsetOf(data)) = key

readHashFromEntry(data) ==
    Uint64(SliceSeq(data, timestampSizeInBytes, timestampSizeInBytes + hashSizeInBytes))

\* resetHashFromEntry writes 8 zero bytes over the hash field
resetHashFromEntry(data) ==
    [i \in 1..Len(data) |->
        IF i > timestampSizeInBytes /\ i <= timestampSizeInBytes + hashSizeInBytes
        THEN 0 ELSE data[i]]

(***************************************************************************)
(* The byte queue (bytes_queue.go)                                         *)
(***************************************************************************)
minimumHeaderSize == 17
leftMarginIndex == 1

getNeededSize(length) ==
    LET header == IF length < 127 THEN 1
                  ELSE IF length < 16382 THEN 2
                  ELSE IF length < 2097149 THEN 3
                  ELSE IF length < 268435452 THEN 4
                  ELSE 5
    IN  header + length

NewBytesQueue(capacity, maxCapacity) ==
    [ array       |-> [i \in 0..(capacity - 1) |-> 0],
      capacity    |-> capacity,
      maxCapacity |-> maxCapacity,
      head        |-> leftMarginIndex,
      tail        |-> leftMarginIndex,
      count       |-> 0,
      rightMargin |-> leftMarginIndex,
      full        |-> FALSE ]

QueueReset(q) ==
    [q EXCEPT !.tail = leftMarginIndex, !.head = leftMarginIndex,
              !.rightMargin = leftMarginIndex, !.count = 0, !.full = FALSE]

\* a variant of canInsertAfterTail that forgets the wrapped queue, where the
\* room after the tail ends at the head
canInsertAfterTailUnwrapped(q, need) ==
    IF q.full THEN FALSE ELSE q.capacity - q.tail >= need

canInsertAfterTail(q, need) ==
    IF q.full THEN FALSE
    ELSE IF q.tail >= q.head THEN q.capacity - q.tail >= need
    ELSE q.head - q.tail = need \/ q.head - q.tail >= need + minimumHeaderSize

canInsertBeforeHead(q, need) ==
    IF q.full THEN FALSE
    ELSE IF q.tail >= q.head
         THEN q.head - leftMarginIndex = need
              \/ q.head - leftMarginIndex >= need + minimumHeaderSize
    ELSE q.head - q.tail = need \/ q.head - q.tail >= need + minimumHeaderSize

\* q.tail += copy(q.array[q.tail:], data[:len]): Go's copy stops at the
\* shorter of the two slices
copy(q, data, len) ==
    LET n == Min(ArrayLen(q.array) - q.tail, len)
    IN  [q EXCEPT
            !.array = [i \in DOMAIN q.array |->
                          IF i >= q.tail /\ i < q.tail + n
                          THEN data[i - q.tail + 1] ELSE q.array[i]],
            !.tail = q.tail + n]

\* the margins and the count once both copies of push have moved the tail
pushDone(q) ==
    [q EXCEPT !.rightMargin = IF q.tail > q.head THEN q.tail ELSE @,
              !.full = IF q.tail = q.head THEN TRUE ELSE @,
              !.count = @ + 1]

\* the two copies of push: the header of headerEntrySize bytes, then data
pushCopies(q, data, len, hdr) ==
    pushDone(copy(copy(q, hdr, Len(hdr)), data, len - Len(hdr)))

push(q, data, len) == pushCopies(q, data, len, PutUvarint(len))

\* steps 1 to 3 of allocateAdditionalMemory: the new capacity
newCapacity(q, minimum) ==
    LET c1 == IF q.capacity < minimum THEN q.capacity + minimum ELSE q.capacity
    IN  IF q.maxCapacity > 0 /\ c1 * 2 > q.maxCapacity THEN q.maxCapacity ELSE c1 * 2

\* a variant of newArray that leaves the old array behind
newArrayWithoutCopy(q, c) ==
    [q EXCEPT !.capacity = c, !.array = [i \in 0..(c - 1) |-> 0]]

\* steps 4 to 6.1: make([]byte, capacity), then, when the queue has held
\* data, copy(q.array, oldArray[:q.rightMargin])
newArray(q, c) ==
    [q EXCEPT !.capacity = c,
              !.array = [i \in 0..(c - 1) |->
                            IF leftMarginIndex # q.rightMargin
                               /\ i < q.rightMargin /\ i < ArrayLen(q.array)
                            THEN q.array[i] ELSE 0]]

\* step 6.2: the gap between tail and head becomes a frame of zeros
fillGap(q) ==
    IF q.tail # q.head THEN push(q, Zeros(q.head - q.tail), q.head - q.tail) ELSE q

\* step 6.3
rewind(q) == [q EXCEPT !.head = leftMarginIndex, !.tail = q.rightMargin]

allocateAdditionalMemory(q, minimum) ==
    IF leftMarginIndex # q.rightMargin /\ q.tail <= q.head
    THEN [rewind(fillGap(newArray(q, newCapacity(q, minimum)))) EXCEPT !.full = FALSE]
    ELSE [newArray(q, newCapacity(q, minimum)) EXCEPT !.full = FALSE]

\* index := q.tail; q.push(entry, neededSize); return index, nil
pushAtTail(q, entry, neededSize) ==
    [q |-> push(q, entry, neededSize), index |-> q.tail, err |-> "nil"]

\* a variant of Push that never wraps the tail to the left margin
pushNeededNoWrap(q, entry, neededSize) ==
    IF canInsertAfterTail(q, neededSize) THEN pushAtTail(q, entry, neededSize)
    ELSE IF q.capacity + neededSize >= q.maxCapacity /\ q.maxCapacity > 0
    THEN [q |-> q, index |-> -1, err |-> "errFullQueue"]
    ELSE pushAtTail(allocateAdditionalMemory(q, neededSize), entry, neededSize)

pushNeeded(q, entry, neededSize) ==
    IF canInsertAfterTail(q, neededSize) THEN pushAtTail(q, entry, neededSize)
    ELSE IF canInsertBeforeHead(q, neededSize)
    THEN pushAtTail([q EXCEPT !.tail = leftMarginIndex], entry, neededSize)
    ELSE IF q.capacity + neededSize >= q.maxCapacity /\ q.maxCapacity > 0
    THEN [q |-> q, index |-> -1, err |-> "errFullQueue"]
    ELSE pushAtTail(allocateAdditionalMemory(q, neededSize), entry, neededSize)

\* Push returns the new queue, the index and the error
Push(q, entry) == pushNeeded(q, entry, getNeededSize(Len(entry)))

peekCheckErr(q, index) ==
    IF q.count = 0 THEN "errEmptyQueue"
    ELSE IF index <= 0 THEN "errInvalidIndex"
    ELSE IF index >= ArrayLen(q.array) THEN "errIndexOutOfBounds"
    ELSE "nil"

\* binary.Uvarint(buf) where buf = array[index:]: the value and the number
\* of bytes read; n = 0 when the buffer ends inside the number
RECURSIVE UvarintFrom(_, _, _)
UvarintFrom(array, index, k) ==
    IF index + k >= ArrayLen(array) THEN [value |-> 0, n |-> 0]
    ELSE IF array[index + k] < 128
         THEN [value |-> array[index + k] * Pow(128, k), n |-> k + 1]
         ELSE LET rest == UvarintFrom(array, index, k + 1)
              IN  IF rest.n = 0 THEN rest
                  ELSE [value |-> (array[index + k] - 128) * Pow(128, k) + rest.value,
                        n |-> rest.n]

Uvarint(array, index) == UvarintFrom(array, index, 0)

\* peek returns the frame without its length prefix, the block size and the
\* error; a slice expression out of range is a run-time panic
peekBlock(q, index, u) ==
    IF index + u.n > index + u.value \/ index + u.value > ArrayLen(q.array)
    THEN [data |-> <<>>, blockSize |-> 0, err |-> "panic"]
    ELSE [data |-> [k \in 1..(u.value - u.n) |-> q.array[index + u.n + k - 1]],
          blockSize |-> u.value, err |-> "nil"]

peek(q, index) ==
    IF peekCheckErr(q, index) # "nil"
    THEN [data |-> <<>>, blockSize |-> 0, err |-> peekCheckErr(q, index)]
    ELSE peekBlock(q, index, Uvarint(q.array, index))

\* a variant of popHead that leaves the head at the right margin
popHeadPastMargin(q) == [q EXCEPT !.full = FALSE]

\* the head past the popped block; at the right margin it returns to the
\* left margin, and a tail at the right margin returns with it
popHead(q) ==
    IF q.head = q.rightMargin
    THEN [q EXCEPT !.head = leftMarginIndex,
                   !.tail = IF q.tail = q.rightMargin THEN leftMarginIndex ELSE @,
                   !.rightMargin = IF q.tail = q.rightMargin THEN leftMarginIndex
                                   ELSE q.tail,
                   !.full = FALSE]
    ELSE [q EXCEPT !.full = FALSE]

popBlock(q, p) ==
    IF p.err # "nil" THEN [q |-> q, data |-> <<>>, err |-> p.err]
    ELSE [q |-> popHead([q EXCEPT !.head = @ + p.blockSize, !.count = @ - 1]),
          data |-> p.data, err |-> "nil"]

Pop(q) == popBlock(q, peek(q, q.head))

Peek(q) == peek(q, q.head)

QueueGet(q, index) == peek(q, index)

CheckGet(q, index) == peekCheckErr(q, index)

QueueCapacity(q) == q.capacity

QueueLen(q) == q.count

(***************************************************************************)
(* The cache shard (shard.go)                                              *)
(*                                                                         *)
(* A shard is a record: hashmap (a Go map: a function whose domain is the  *)
(* set of keys present), entries (the BytesQueue), stats and hashmapStats. *)
(* A configuration c is [lifeWindow, cleanEnabled, statsEnabled].          *)
(* entryBuffer is scratch space that wrapEntry and appendToWrappedEntry    *)
(* overwrite before Push copies it into the arena; it is not state.        *)
(* Every operation here is the handler run under the shard lock, start to  *)
(* end; it returns the shard it leaves, its results and the removal        *)
(* callbacks it made, oldest first.                                        *)
(***************************************************************************)
Expired == 1
NoSpace == 2
Deleted == 3

\* s.hashmap[hashedKey]: a missing key reads as the zero value
MapGet(m, k) == IF k \in DOMAIN m THEN m[k] ELSE 0

\* s.hashmap[hashedKey] = v
MapPut(m, k, v) == [x \in DOMAIN m \cup {k} |-> IF x = k THEN v ELSE m[x]]

\* delete(s.hashmap, hashedKey)
MapDelete(m, k) == [x \in DOMAIN m \ {k} |-> m[x]]

EmptyMap == [x \in {} |-> 0]

ZeroStats == [Hits |-> 0, Misses |-> 0, DelHits |-> 0, DelMisses |-> 0, Collisions |-> 0]

initNewShard(bytesQueueInitialCapacity, maximumShardSizeInBytes) ==
    [ hashmap      |-> EmptyMap,
      hashmapStats |-> EmptyMap,
      entries      |-> NewBytesQueue(
                          IF maximumShardSizeInBytes > 0
                             /\ bytesQueueInitialCapacity > maximumShardSizeInBytes
                          THEN maximumShardSizeInBytes
                          ELSE bytesQueueInitialCapacity,
                          maximumShardSizeInBytes),
      stats        |-> ZeroStats ]

\* the frame is long enough for the fixed-offset readers; a shorter one makes
\* them index out of range
FrameReadable(data) ==
    /\ Len(data) >= headersSizeInBytes
    /\ valueOffsetOf(data) >= headersSizeInBytes
    /\ valueOffsetOf(data) <= Len(data)

\* s.onRemove(wrappedEntry, reason), as the callback log entry it leaves
Removal(wrappedEntry, reason) ==
    [key |-> readKeyFromEntry(wrappedEntry), entry |-> readEntry(wrappedEntry),
     hash |-> readHashFromEntry(wrappedEntry),
     timestamp |-> readTimestampFromEntry(wrappedEntry), reason |-> reason]

miss(s) == [s EXCEPT !.stats.Misses = @ + 1]
delhit(s) == [s EXCEPT !.stats.DelHits = @ + 1]
delmiss(s) == [s EXCEPT !.stats.DelMisses = @ + 1]
collision(s) == [s EXCEPT !.stats.Collisions = @ + 1]

hitWithoutLock(s, c, key) ==
    LET s1 == [s EXCEPT !.stats.Hits = @ + 1]
    IN  IF c.statsEnabled
        THEN [s1 EXCEPT !.hashmapStats = MapPut(@, key, MapGet(@, key) + 1)]
        ELSE s1

\* hit takes the lock for the same two updates
hit(s, c, key) == hitWithoutLock(s, c, key)

\* resetHashFromEntry on the frame p stored at index: the slice aliases the
\* arena, so the zeros land in the arena
resetHashOf(s, index, p) ==
    LET n == p.blockSize - Len(p.data)
        lo == index + n + timestampSizeInBytes
    IN  [s EXCEPT !.entries.array =
            [i \in DOMAIN @ |-> IF i >= lo /\ i < lo + hashSizeInBytes
                                THEN resetHashFromEntry(p.data)[i - index - n + 1]
                                ELSE @[i]]]

resetHashAt(s, index) == resetHashOf(s, index, QueueGet(s.entries, index))

\* wrappedEntry, err := s.entries.Get(int(itemIndex)), and what follows it
wrappedFrom(s, p) ==
    IF p.err = "panic" THEN [s |-> s, data |-> <<>>, err |-> "panic"]
    ELSE IF p.err # "nil" THEN [s |-> miss(s), data |-> <<>>, err |-> p.err]
    ELSE [s |-> s, data |-> p.data, err |-> "nil"]

wrappedAt(s, itemIndex) ==
    IF itemIndex = 0 THEN [s |-> miss(s), data |-> <<>>, err |-> "ErrEntryNotFound"]
    ELSE wrappedFrom(s, QueueGet(s.entries, itemIndex))

getWrappedEntry(s, hashedKey) == wrappedAt(s, MapGet(s.hashmap, hashedKey))

validFrom(c, key, hashedKey, w) ==
    IF w.err # "nil" THEN w
    ELSE IF ~FrameReadable(w.data) THEN [w EXCEPT !.err = "panic"]
    ELSE IF ~compareKeyFromEntry(w.data, key)
         THEN [s |-> collision(w.s), data |-> <<>>, err |-> "ErrEntryNotFound"]
    ELSE [s |-> hitWithoutLock(w.s, c, hashedKey), data |-> w.data, err |-> "nil"]

getValidWrapEntry(s, c, key, hashedKey) ==
    validFrom(c, key, hashedKey, getWrappedEntry(s, hashedKey))

\* a variant of getFrom that trusts the hash and does not compare the keys
getFromAnyKey(c, key, hashedKey, w) ==
    IF w.err # "nil" THEN [s |-> w.s, entry |-> <<>>, err |-> w.err]
    ELSE IF ~FrameReadable(w.data) THEN [s |-> w.s, entry |-> <<>>, err |-> "panic"]
    ELSE [s |-> hit(w.s, c, hashedKey), entry |-> readEntry(w.data), err |-> "nil"]

getFrom(c, key, hashedKey, w) ==
    IF w.err # "nil" THEN [s |-> w.s, entry |-> <<>>, err |-> w.err]
    ELSE IF ~FrameReadable(w.data) THEN [s |-> w.s, entry |-> <<>>, err |-> "panic"]
    ELSE IF key # readKeyFromEntry(w.data)
         THEN [s |-> collision(w.s), entry |-> <<>>, err |-> "ErrEntryNotFound"]
    ELSE [s |-> hit(w.s, c, hashedKey), entry |-> readEntry(w.data), err |-> "nil"]

get(s, c, key, hashedKey) == getFrom(c, key, hashedKey, getWrappedEntry(s, hashedKey))

isExpired(c, oldestEntry, currentTimestamp) ==
    IF currentTimestamp <= readTimestampFromEntry(oldestEntry) THEN FALSE
    ELSE currentTimestamp - readTimestampFromEntry(oldestEntry) > c.lifeWindow

\* a variant of getWithInfo that drops the index entry of an expired entry
getWithInfoFromEvicting(c, currentTime, key, hashedKey, w) ==
    IF w.err # "nil" THEN [s |-> w.s, entry |-> <<>>, status |-> 0, err |-> w.err]
    ELSE IF ~FrameReadable(w.data)
         THEN [s |-> w.s, entry |-> <<>>, status |-> 0, err |-> "panic"]
    ELSE IF key # readKeyFromEntry(w.data)
         THEN [s |-> collision(w.s), entry |-> <<>>, status |-> 0,
               err |-> "ErrEntryNotFound"]
    ELSE IF isExpired(c, w.data, currentTime)
         THEN [s |-> [w.s EXCEPT !.hashmap = MapDelete(@, hashedKey)],
               entry |-> readEntry(w.data), status |-> Expired, err |-> "nil"]
    ELSE [s |-> hit(w.s, c, hashedKey), entry |-> readEntry(w.data),
          status |-> 0, err |-> "nil"]

getWithInfoFrom(c, currentTime, key, hashedKey, w) ==
    IF w.err # "nil" THEN [s |-> w.s, entry |-> <<>>, status |-> 0, err |-> w.err]
    ELSE IF ~FrameReadable(w.data)
         THEN [s |-> w.s, entry |-> <<>>, status |-> 0, err |-> "panic"]
    ELSE IF key # readKeyFromEntry(w.data)
         THEN [s |-> collision(w.s), entry |-> <<>>, status |-> 0,
               err |-> "ErrEntryNotFound"]
    ELSE [s |-> hit(w.s, c, hashedKey), entry |-> readEntry(w.data),
          status |-> IF isExpired(c, w.data, currentTime) THEN Expired ELSE 0,
          err |-> "nil"]

getWithInfo(s, c, currentTime, key, hashedKey) ==
    getWithInfoFrom(c, currentTime, key, hashedKey, getWrappedEntry(s, hashedKey))

\* the callbacks made before r come first
After(removed, r) == [r EXCEPT !.removed = removed \o @]

\* what a handler leaves when it panics: the shard as it found it
Crash(s) == [s |-> s, err |-> "panic", removed |-> <<>>, index |-> 0]

\* removeOldestEntry once Pop has returned r
removePopped(s, c, reason, r) ==
    IF r.err # "nil" THEN [s |-> s, err |-> r.err, removed |-> <<>>]
    ELSE IF Len(r.data) < timestampSizeInBytes + hashSizeInBytes
         THEN [s |-> s, err |-> "panic", removed |-> <<>>]
    ELSE IF readHashFromEntry(r.data) = 0
         THEN [s |-> [s EXCEPT !.entries = r.q], err |-> "nil", removed |-> <<>>]
    ELSE [s |-> [s EXCEPT !.entries = r.q,
                          !.hashmap = MapDelete(@, readHashFromEntry(r.data)),
                          !.hashmapStats = IF c.statsEnabled
                                           THEN MapDelete(@, readHashFromEntry(r.data))
                                           ELSE @],
          err |-> "nil",
          removed |-> <<Removal(r.data, reason)>>]

removeOldestEntry(s, c, reason) == removePopped(s, c, reason, Pop(s.entries))

\* onEvict leaves the shard alone
notEvicted(s, err) == [s |-> s, evicted |-> FALSE, err |-> err, removed |-> <<>>]

\* onEvict once evict(Expired) has returned r
evictedBy(s, r) ==
    IF r.err = "panic" THEN notEvicted(s, "panic")
    ELSE IF r.err # "nil" THEN notEvicted(s, "nil")
    ELSE [s |-> r.s, evicted |-> TRUE, err |-> "nil", removed |-> r.removed]

\* onEvict(oldestEntry, currentTimestamp, s.removeOldestEntry)
onEvict(s, c, oldestEntry, currentTimestamp) ==
    IF Len(oldestEntry) < timestampSizeInBytes THEN notEvicted(s, "panic")
    ELSE IF isExpired(c, oldestEntry, currentTimestamp)
    THEN evictedBy(s, removeOldestEntry(s, c, Expired))
    ELSE notEvicted(s, "nil")

evictPeeked(s, c, currentTimestamp, p) ==
    IF p.err = "panic" THEN notEvicted(s, "panic")
    ELSE IF p.err # "nil" THEN notEvicted(s, "nil")
    ELSE onEvict(s, c, p.data, currentTimestamp)

\* a variant of evictOldestIfExpired that checks the head whether or not the
\* periodic clean-up is on
evictOldestAlways(s, c, currentTimestamp) ==
    evictPeeked(s, c, currentTimestamp, Peek(s.entries))

\* if !s.cleanEnabled { if oldestEntry, err := s.entries.Peek(); err == nil { onEvict } }
evictOldestIfExpired(s, c, currentTimestamp) ==
    IF c.cleanEnabled THEN notEvicted(s, "nil")
    ELSE evictPeeked(s, c, currentTimestamp, Peek(s.entries))

\* for { Push(w) ... removeOldestEntry(NoSpace) ... }: the loop that set,
\* addNewWithoutLock and setWrappedEntryWithoutLock each end with
RECURSIVE pushOrEvict(_, _, _, _)

\* the loop once removeOldestEntry(NoSpace) has returned e
pushAfterEvict(s, c, w, hashedKey, e) ==
    IF e.err = "panic" THEN Crash(s)
    ELSE IF e.err # "nil"
    THEN [s |-> s, err |-> "entry is bigger than max shard size",
          removed |-> <<>>, index |-> 0]
    ELSE After(e.removed, pushOrEvict(e.s, c, w, hashedKey))

\* the loop once Push has returned r
pushOrEvictOn(s, c, w, hashedKey, r) ==
    IF r.err = "nil"
    THEN [s |-> [s EXCEPT !.entries = r.q, !.hashmap = MapPut(@, hashedKey, r.index)],
          err |-> "nil", removed |-> <<>>, index |-> r.index]
    ELSE pushAfterEvict(s, c, w, hashedKey, removeOldestEntry(s, c, NoSpace))

pushOrEvict(s, c, w, hashedKey) ==
    pushOrEvictOn(s, c, w, hashedKey, Push(s.entries, w))

\* a variant of tombstoneAt that drops the index and leaves the hash field
\* of the old frame as it is
tombstoneAtIndexOnly(s, hashedKey, dropIndex, previousIndex) ==
    IF previousIndex = 0 \/ QueueGet(s.entries, previousIndex).err # "nil" THEN s
    ELSE IF dropIndex THEN [s EXCEPT !.hashmap = MapDelete(@, hashedKey)]
    ELSE s

\* the old frame under hashedKey, stored at previousIndex, is tombstoned
tombstoneAt(s, hashedKey, dropIndex, previousIndex) ==
    IF previousIndex = 0 \/ QueueGet(s.entries, previousIndex).err # "nil" THEN s
    ELSE IF dropIndex
    THEN [resetHashAt(s, previousIndex) EXCEPT !.hashmap = MapDelete(@, hashedKey)]
    ELSE resetHashAt(s, previousIndex)

tombstonePrevious(s, hashedKey, dropIndex) ==
    tombstoneAt(s, hashedKey, dropIndex, MapGet(s.hashmap, hashedKey))

\* the frame p is too short to hold a hash field
tooShortToTombstone(p) ==
    p.err = "panic" \/ (p.err = "nil" /\ Len(p.data) < timestampSizeInBytes + hashSizeInBytes)

tombstonePanics(s, hashedKey) ==
    /\ MapGet(s.hashmap, hashedKey) # 0
    /\ tooShortToTombstone(QueueGet(s.entries, MapGet(s.hashmap, hashedKey)))

\* the push loop after the expiry check ev; s is the shard the handler found
pushAfter(s, c, w, hashedKey, ev) ==
    IF ev.err = "panic" THEN Crash(s)
    ELSE After(ev.removed, pushOrEvict(ev.s, c, w, hashedKey))

set(s, c, currentTimestamp, key, hashedKey, entry) ==
    IF tombstonePanics(s, hashedKey) THEN Crash(s)
    ELSE pushAfter(s, c, wrapEntry(currentTimestamp, hashedKey, key, entry), hashedKey,
                   evictOldestIfExpired(tombstonePrevious(s, hashedKey, TRUE),
                                        c, currentTimestamp))

addNewWithoutLock(s, c, currentTimestamp, key, hashedKey, entry) ==
    pushAfter(s, c, wrapEntry(currentTimestamp, hashedKey, key, entry), hashedKey,
              evictOldestIfExpired(s, c, currentTimestamp))

setWrappedEntryWithoutLock(s, c, currentTimestamp, w, hashedKey) ==
    IF tombstonePanics(s, hashedKey) THEN Crash(s)
    ELSE pushAfter(s, c, w, hashedKey,
                   evictOldestIfExpired(tombstonePrevious(s, hashedKey, FALSE),
                                        c, currentTimestamp))

\* append once getValidWrapEntry has returned v
appendTo(c, currentTimestamp, key, hashedKey, entry, v) ==
    IF v.err = "ErrEntryNotFound"
    THEN addNewWithoutLock(v.s, c, currentTimestamp, key, hashedKey, entry)
    ELSE IF v.err # "nil"
    THEN [s |-> v.s, err |-> v.err, removed |-> <<>>, index |-> 0]
    ELSE setWrappedEntryWithoutLock(v.s, c, currentTimestamp,
                                    appendToWrappedEntry(currentTimestamp, v.data, entry),
                                    hashedKey)

append(s, c, currentTimestamp, key, hashedKey, entry) ==
    appendTo(c, currentTimestamp, key, hashedKey, entry,
             getValidWrapEntry(s, c, key, hashedKey))

\* delete(s.hashmap, hashedKey) and, with statistics, delete(s.hashmapStats, hashedKey)
dropFromHashmap(s, c, hashedKey) ==
    [s EXCEPT !.hashmap = MapDelete(@, hashedKey),
              !.hashmapStats = IF c.statsEnabled THEN MapDelete(@, hashedKey) ELSE @]

\* del under the write lock, once s.entries.Get has returned p
delFrame(s, c, hashedKey, itemIndex, p) ==
    IF p.err = "panic" \/ ~FrameReadable(p.data)
    THEN [s |-> s, err |-> "panic", removed |-> <<>>]
    ELSE [s |-> delhit(resetHashAt(dropFromHashmap(s, c, hashedKey), itemIndex)),
          err |-> "nil",
          removed |-> <<Removal(p.data, Deleted)>>]

delAt(s, c, hashedKey, itemIndex) ==
    IF itemIndex = 0
    THEN [s |-> delmiss(s), err |-> "ErrEntryNotFound", removed |-> <<>>]
    ELSE IF CheckGet(s.entries, itemIndex) # "nil"
    THEN [s |-> delmiss(s), err |-> CheckGet(s.entries, itemIndex), removed |-> <<>>]
    ELSE delFrame(s, c, hashedKey, itemIndex, QueueGet(s.entries, itemIndex))

del(s, c, hashedKey) == delAt(s, c, hashedKey, MapGet(s.hashmap, hashedKey))

RECURSIVE cleanUp(_, _, _)

\* cleanUp once onEvict has returned e
cleanEvicted(s, c, currentTimestamp, e) ==
    IF e.err = "panic" THEN [s |-> s, err |-> "panic", removed |-> <<>>]
    ELSE IF ~e.evicted THEN [s |-> s, err |-> "nil", removed |-> <<>>]
    ELSE After(e.removed, cleanUp(e.s, c, currentTimestamp))

\* cleanUp once s.entries.Peek() has returned p
cleanPeeked(s, c, currentTimestamp, p) ==
    IF p.err = "panic" THEN [s |-> s, err |-> "panic", removed |-> <<>>]
    ELSE IF p.err # "nil" THEN [s |-> s, err |-> "nil", removed |-> <<>>]
    ELSE cleanEvicted(s, c, currentTimestamp, onEvict(s, c, p.data, currentTimestamp))

cleanUp(s, c, currentTimestamp) ==
    cleanPeeked(s, c, currentTimestamp, Peek(s.entries))

reset(s) ==
    [s EXCEPT !.hashmap = EmptyMap, !.entries = QueueReset(@)]

len(s) == Cardinality(DOMAIN s.hashmap)

capacity(s) == QueueCapacity(s.entries)

(***************************************************************************)
(* The cache (bigcache.go) over one shard, its clock and its hasher        *)
(***************************************************************************)
\* the number of cache operations of a run
MaxOps == 3
\* the last second of the clock
MaxTime == 4
\* config.LifeWindow in seconds
LifeWindow == 2
\* bytesQueueInitialCapacity and maximumShardSizeInBytes of the shard
InitialShardBytes == 24
MaxShardBytes == 48
\* the length of the long value
LongValueLen == 10

KeyA == <<97>>
KeyB == <<98>>
KeyC == <<99>>
KeyD == <<100>>
Keys == {KeyA, KeyB, KeyC}
KeyZ == <<122>>
AllKeys == Keys \cup {KeyD, KeyZ}

\* config.Hasher: KeyA and KeyB collide, and the hash of KeyZ is 0
Sum64(key) ==
    IF key = KeyZ THEN 0 ELSE IF key = KeyD THEN 3 ELSE IF key = KeyC THEN 2 ELSE 1

ShortValue == <<1>>
OtherValue == <<3>>
LongValue == [i \in 1..LongValueLen |-> 2]
Values == {ShortValue, OtherValue, LongValue}

\* the seconds the clock may jump at once
ClockSteps == {1, LifeWindow, LifeWindow + 1}

Configs ==
    [lifeWindow : {LifeWindow}, cleanEnabled : BOOLEAN, statsEnabled : {FALSE}]

\* no value: what the oracle holds for a key never written
NoValue == <<-2>>

NoCall == [op |-> "none", key |-> <<>>, entry |-> <<>>, err |-> "nil",
           result |-> <<>>, status |-> 0, removed |-> <<>>, time |-> 0]

\* no Set stands unfollowed
NoFresh == [valid |-> FALSE, key |-> <<>>, entry |-> <<>>, time |-> 0]

\* no slice is held
NoHold == [valid |-> FALSE, bytes |-> <<>>, memory |-> "heap", off |-> 0, kept |-> <<>>]

\* the bytes of the arena of s at off .. off + n - 1
ArenaBytes(s, off, n) == [k \in 1..n |-> s.entries.array[off + k - 1]]

\* what the caller reads in the slice h now: a slice of its own array holds
\* what was copied into it; a slice of the arena shows the arena; a slice of
\* an arena that growth has replaced shows that arena as it was left
HeldBytes(h, s) ==
    IF h.memory = "heap" THEN h.bytes
    ELSE IF h.memory = "data" THEN ArenaBytes(s, h.off, Len(h.bytes))
    ELSE h.kept

\* the offset in the arena of the value of the frame p stored at index
entryOffsetOf(index, p) ==
    index + (p.blockSize - Len(p.data)) + valueOffsetOf(p.data)

\* the slice Get or GetWithInfo hands out with the result r, if any
HoldOf(s, key, r) ==
    IF r.err # "nil" THEN held
    ELSE [valid |-> TRUE, bytes |-> r.entry, memory |-> readEntryMemory,
          off |-> entryOffsetOf(MapGet(s.hashmap, Sum64(key)),
                                QueueGet(s.entries, MapGet(s.hashmap, Sum64(key)))),
          kept |-> <<>>]

\* the slice held across an operation that takes the shard from s to t:
\* growth leaves a slice of the old arena with the old arena
HoldAcross(s, t) ==
    IF held.memory = "data" /\ t.entries.capacity # s.entries.capacity
    THEN [held EXCEPT !.memory = "old", !.kept = HeldBytes(held, s)]
    ELSE held

\* the cache of a run: its configuration, its shard, the length of the run
CacheStarts(c, s, n) ==
    /\ cfg = c
    /\ shard = s
    /\ now = 0
    /\ last = NoCall
    /\ stored = [k \in AllKeys |-> NoValue]
    /\ fresh = NoFresh
    /\ deleted = {}
    /\ held = NoHold
    /\ ops = 0
    /\ budget = n
    /\ crashed = FALSE

CacheInit ==
    \E c \in Configs :
        CacheStarts(c, initNewShard(InitialShardBytes, MaxShardBytes), MaxOps)

\* one more operation may start
Step ==
    /\ ~crashed
    /\ ops < budget
    /\ ops' = ops + 1
    /\ UNCHANGED budget

\* the handler's effect on the shard: a panic ends the program
Leave(r) ==
    /\ shard' = IF r.err = "panic" THEN shard ELSE r.s
    /\ crashed' = (r.err = "panic")

\* a handler that hands out no slice
LeaveHeld(r) ==
    /\ Leave(r)
    /\ held' = IF r.err = "panic" THEN held ELSE HoldAcross(shard, r.s)

GetReturns(key, r) ==
    /\ Step
    /\ Leave(r)
    /\ held' = HoldOf(shard, key, r)
    /\ last' = [NoCall EXCEPT !.op = "Get", !.key = key, !.err = r.err,
                              !.result = r.entry, !.time = now]
    /\ UNCHANGED <<cfg, now, stored, fresh, deleted>>

Get(key) == GetReturns(key, get(shard, cfg, key, Sum64(key)))

GetWithInfoReturns(key, r) ==
    /\ Step
    /\ Leave(r)
    /\ held' = HoldOf(shard, key, r)
    /\ last' = [NoCall EXCEPT !.op = "GetWithInfo", !.key = key, !.err = r.err,
                              !.result = r.entry, !.status = r.status, !.time = now]
    /\ UNCHANGED <<cfg, now, stored, fresh, deleted>>

GetWithInfo(key) == GetWithInfoReturns(key, getWithInfo(shard, cfg, now, key, Sum64(key)))

SetReturns(key, entry, r) ==
    /\ Step
    /\ LeaveHeld(r)
    /\ last' = [NoCall EXCEPT !.op = "Set", !.key = key, !.entry = entry,
                              !.err = r.err, !.removed = r.removed, !.time = now]
    /\ stored' = IF r.err = "nil" THEN [stored EXCEPT ![key] = entry] ELSE stored
    /\ fresh' = IF r.err = "nil"
                THEN [valid |-> TRUE, key |-> key, entry |-> entry, time |-> now]
                ELSE NoFresh
    /\ deleted' = deleted \ {key}
    /\ UNCHANGED <<cfg, now>>

Set(key, entry) == SetReturns(key, entry, set(shard, cfg, now, key, Sum64(key), entry))

\* g is what Get(key) would have returned before the call
AppendReturns(key, entry, r, g) ==
    /\ Step
    /\ LeaveHeld(r)
    /\ last' = [NoCall EXCEPT !.op = "Append", !.key = key, !.entry = entry,
                              !.err = r.err, !.removed = r.removed, !.time = now,
                              !.result = IF g.err = "nil" THEN g.entry ELSE NoValue]
    /\ stored' = IF r.err # "nil" THEN stored
                 ELSE IF g.err = "nil" THEN [stored EXCEPT ![key] = @ \o entry]
                 ELSE [stored EXCEPT ![key] = entry]
    /\ fresh' = NoFresh
    /\ deleted' = deleted \ {key}
    /\ UNCHANGED <<cfg, now>>

\* BigCache.Append
CacheAppend(key, entry) ==
    AppendReturns(key, entry, append(shard, cfg, now, key, Sum64(key), entry),
                  get(shard, cfg, key, Sum64(key)))

DeleteReturns(key, r) ==
    /\ Step
    /\ LeaveHeld(r)
    /\ last' = [NoCall EXCEPT !.op = "Delete", !.key = key, !.err = r.err,
                              !.removed = r.removed, !.time = now]
    /\ fresh' = NoFresh
    /\ deleted' = IF r.err = "nil" THEN deleted \cup {key} ELSE deleted
    /\ UNCHANGED <<cfg, now, stored>>

Delete(key) == DeleteReturns(key, del(shard, cfg, Sum64(key)))

Reset ==
    /\ Step
    /\ shard' = reset(shard)
    /\ held' = HoldAcross(shard, reset(shard))
    /\ last' = [NoCall EXCEPT !.op = "Reset", !.time = now]
    /\ fresh' = NoFresh
    /\ UNCHANGED <<cfg, now, stored, deleted, crashed>>

CleanUpReturns(r) ==
    /\ cfg.cleanEnabled
    /\ Step
    /\ LeaveHeld(r)
    /\ last' = [NoCall EXCEPT !.op = "CleanUp", !.err = r.err,
                              !.removed = r.removed, !.time = now]
    /\ UNCHANGED <<cfg, now, stored, fresh, deleted>>

\* the ticker of newBigCache fires: cache.cleanUp(uint64(t.Unix()))
CleanUp == CleanUpReturns(cleanUp(shard, cfg, now))

\* the clock advances
Tick ==
    \E d \in ClockSteps :
        /\ Step
        /\ now + d <= MaxTime
        /\ now' = now + d
        /\ last' = [NoCall EXCEPT !.op = "Tick", !.time = now]
        /\ UNCHANGED <<cfg, shard, stored, fresh, deleted, crashed, held>>

\* a shard that cannot grow and holds one short frame
MaxTightOps == 4
TightShardBytes == 24
TightKeys == {KeyA, KeyB}
TightValues == {ShortValue, LongValue}

TightInit ==
    CacheStarts([lifeWindow |-> LifeWindow, cleanEnabled |-> FALSE, statsEnabled |-> FALSE],
                initNewShard(TightShardBytes, TightShardBytes), MaxTightOps)

\* a shard that can hold two short frames and grow by one more: the arena
\* wraps before it grows
MaxEvictOps == 8
EvictInitialBytes == 44
EvictMaxBytes == 70
EvictKeys == {KeyA, KeyC, KeyD}

EvictInit ==
    CacheStarts([lifeWindow |-> LifeWindow, cleanEnabled |-> FALSE, statsEnabled |-> FALSE],
                initNewShard(EvictInitialBytes, EvictMaxBytes), MaxEvictOps)

\* the same shard read between the writes: a caller holds the slice a Get
\* returned while the arena grows, wraps and evicts
MaxCopyOps == 5
CopyKeys == {KeyA, KeyC}
CopyValues == {ShortValue, OtherValue}

CopyInit ==
    CacheStarts([lifeWindow |-> LifeWindow, cleanEnabled |-> FALSE, statsEnabled |-> FALSE],
                initNewShard(EvictInitialBytes, EvictMaxBytes), MaxCopyOps)

\* the shard of a cache configured with LifeWindow 0 and CleanWindow 0:
\* lifeWindow is 0 and cleanEnabled is false
MaxForeverOps == 4
ForeverKeys == {KeyA, KeyC}
ForeverValues == {ShortValue, OtherValue}

ForeverInit ==
    CacheStarts([lifeWindow |-> 0, cleanEnabled |-> FALSE, statsEnabled |-> FALSE],
                initNewShard(EvictInitialBytes, EvictMaxBytes), MaxForeverOps)

\* the same shard with the periodic clean-up on
MaxExpireOps == 5
ExpireKeys == {KeyA, KeyB}
ExpireValues == {ShortValue, OtherValue}

ExpireInit ==
    CacheStarts([lifeWindow |-> LifeWindow, cleanEnabled |-> TRUE, statsEnabled |-> FALSE],
                initNewShard(EvictInitialBytes, EvictMaxBytes), MaxExpireOps)

\* a shard of two frames that cannot grow, written under a key of hash 0
MaxZeroOps == 5
ZeroKeys == {KeyZ, KeyC, KeyD}

ZeroInit ==
    \E c \in Configs :
        CacheStarts(c, initNewShard(EvictInitialBytes, EvictInitialBytes), MaxZeroOps)

\* the shard that grows while wrapped, with the periodic clean-up on
MaxSweepOps == 9
SweepKeys == {KeyA, KeyC, KeyD}

SweepInit ==
    CacheStarts([lifeWindow |-> LifeWindow, cleanEnabled |-> TRUE, statsEnabled |-> FALSE],
                initNewShard(EvictInitialBytes, EvictMaxBytes), MaxSweepOps)

(***************************************************************************)
(* Codec harness: wrapEntry and the readers applied to chosen inputs       *)
(***************************************************************************)
\* the longest ordinary key of the harness
MaxKeyLen == 2
\* the longest value of the harness
MaxCodecValueLen == 2
\* the largest timestamp and hash of the harness
MaxCodecWord == 2
\* a key of 65518 bytes, the first length at which 18 + len(key) leaves uint16
LongKeyLen == 65536 - headersSizeInBytes

\* the byte strings of length 0..n over two letters
RECURSIVE BytesUpTo(_)
BytesUpTo(n) ==
    IF n = 0 THEN {<<>>}
    ELSE BytesUpTo(n - 1)
         \cup {<<b>> \o s : b \in {97, 98}, s \in {t \in BytesUpTo(n - 1) : Len(t) = n - 1}}

CodecKeys == BytesUpTo(MaxKeyLen) \cup {[i \in 1..LongKeyLen |-> 97]}
CodecValues == BytesUpTo(MaxCodecValueLen)
CodecWords == 0..MaxCodecWord

CodecInit ==
    cdc \in [ timestamp : CodecWords, hash : CodecWords, key : CodecKeys,
              entry : CodecValues, frame : {<<>>}, stage : {"input"} ]

\* wrapEntry(timestamp, hash, key, entry, &buffer)
CodecWrap ==
    /\ cdc.stage = "input"
    /\ cdc' = [cdc EXCEPT !.frame = wrapEntry(cdc.timestamp, cdc.hash, cdc.key, cdc.entry),
                          !.stage = "wrapped"]
    /\ UNCHANGED <<procVars, queueVars, cacheVars, frontVars>>

\* appendToWrappedEntry(timestamp2, frame, entry2, &buffer) on a wrapped frame
CodecAppend ==
    /\ cdc.stage = "wrapped"
    /\ Len(cdc.key) <= MaxKeyLen
    /\ \E t \in CodecWords, e \in {<<>>, <<99>>} :
          cdc' = [cdc EXCEPT !.frame = appendToWrappedEntry(t, cdc.frame, e),
                             !.timestamp = t,
                             !.entry = cdc.entry \o e,
                             !.stage = "appended"]
    /\ UNCHANGED <<procVars, queueVars, cacheVars, frontVars>>

\* resetHashFromEntry(frame)
CodecResetHash ==
    /\ cdc.stage \in {"wrapped", "appended"}
    /\ Len(cdc.key) <= MaxKeyLen
    /\ cdc' = [cdc EXCEPT !.frame = resetHashFromEntry(cdc.frame), !.stage = "tombstoned"]
    /\ UNCHANGED <<procVars, queueVars, cacheVars, frontVars>>

(***************************************************************************)
(* Queue harness: a BytesQueue driven by Push, Pop and Reset               *)
(***************************************************************************)
\* the number of queue operations of a run
MaxQueueOps == 9
\* capacity and maxCapacity the harness gives NewBytesQueue
QInitialCapacity == 24
QMaxCapacity == 48
\* the lengths and the fill bytes of the entries the harness pushes
QSmallLen == 1
QMidLen == 10
QBigLen == 18

QEntries == {[i \in 1..QSmallLen |-> 1], [i \in 1..QMidLen |-> 2], [i \in 1..QBigLen |-> 3]}

\* Push grows the arena on this input
NeedsGrow(q, need) ==
    /\ ~canInsertAfterTail(q, need)
    /\ ~canInsertBeforeHead(q, need)
    /\ ~(q.capacity + need >= q.maxCapacity /\ q.maxCapacity > 0)

\* the oldest frame of the ghost queue, or no frame
Oldest(f) == IF f = <<>> THEN [off |-> 0, data |-> <<>>] ELSE Head(f)

\* how the frames lie in the arena: after the head up to the tail, wrapped
\* with room left between tail and head, or wrapped with none left
Shape(q) ==
    IF q.full THEN "full" ELSE IF q.tail < q.head THEN "gap" ELSE "contiguous"

NoOp == [op |-> "none", err |-> "nil", data |-> <<>>, index |-> 0,
         oldest |-> Oldest(<<>>), grew |-> FALSE, shape |-> "contiguous"]

QueueInit ==
    /\ queue = NewBytesQueue(QInitialCapacity, QMaxCapacity)
    /\ pushed = <<>>
    /\ qlast = NoOp
    /\ grown = FALSE
    /\ qsteps = 0

\* queues smaller than the frames pushed, with and without a limit: the
\* runs are MaxGrowOps operations long
MaxGrowOps == 4
GrowCapacity == 4
GrowMaxCapacity == 40

GrowInit ==
    /\ \E m \in {0, GrowMaxCapacity} : queue = NewBytesQueue(GrowCapacity, m)
    /\ pushed = <<>>
    /\ qlast = NoOp
    /\ grown = FALSE
    /\ qsteps = MaxQueueOps - MaxGrowOps

\* the frames of f other than the one that starts at offset off
WithoutOffset(f, off) == SelectSeq(f, LAMBDA r : r.off # off)

QPush ==
    \E e \in QEntries :
        LET r == Push(queue, e)
            g == NeedsGrow(queue, getNeededSize(Len(e)))
        IN  /\ qsteps < MaxQueueOps
            /\ qsteps' = qsteps + 1
            /\ queue' = r.q
            /\ pushed' = IF r.err = "nil"
                         THEN Append(pushed, [off |-> r.index, data |-> e])
                         ELSE pushed
            /\ grown' = (grown \/ g)
            /\ qlast' = [op |-> "Push", err |-> r.err, data |-> e, index |-> r.index,
                         oldest |-> Oldest(pushed), grew |-> g, shape |-> Shape(queue)]
            /\ UNCHANGED <<procVars, codecVars, cacheVars, frontVars>>

QPop ==
    LET r == Pop(queue)
    IN  /\ qsteps < MaxQueueOps
        /\ qsteps' = qsteps + 1
        /\ queue' = r.q
        /\ pushed' = IF r.err = "nil" THEN WithoutOffset(pushed, queue.head) ELSE pushed
        /\ qlast' = [op |-> "Pop", err |-> r.err, data |-> r.data, index |-> queue.head,
                     oldest |-> Oldest(pushed), grew |-> FALSE, shape |-> Shape(queue)]
        /\ UNCHANGED <<procVars, grown, cdc, cacheVars, frontVars>>

QReset ==
    /\ qsteps < MaxQueueOps
    /\ qsteps' = qsteps + 1
    /\ queue' = QueueReset(queue)
    /\ pushed' = <<>>
    /\ qlast' = [NoOp EXCEPT !.op = "Reset", !.oldest = Oldest(pushed)]
    /\ UNCHANGED <<procVars, grown, cdc, cacheVars, frontVars>>

(***************************************************************************)
(* The cache front (bigcache.go): construction, routing, Close and the     *)
(* clean-up goroutine                                                      *)
(*                                                                         *)
(* A Config is a record of Shards, MaxEntrySize, MaxEntriesInWindow,       *)
(* HardMaxCacheSize and the durations LifeWindow and CleanWindow, both in  *)
(* milliseconds.  bigcache is the value newBigCache returns: state is      *)
(* "unbuilt" before the call, "built" when it returned a cache and         *)
(* "failed" when it returned an error; shards maps the Go index            *)
(* 0..Shards-1 to a shard; closed says that the close channel is closed.   *)
(* cleaner is the goroutine of newBigCache: pc is "none" (never started),  *)
(* "starting" (go func() has run, the body has not), "parked" (blocked in  *)
(* the select), "cleaning" (a tick was received, cache.cleanUp has not     *)
(* returned), "select" (back at the select with a case ready), "woken"     *)
(* (a return case was received) or "exited".                               *)
(***************************************************************************)
\* the number of calls and events of a run of the front
MaxFrontOps == 3
\* config.Shards ranges over 0..MaxShards
MaxShards == 3
\* durations of the harness, in milliseconds: under one second, two
\* seconds, and the period of the ticker
ShortWindow == 500
LongWindow == 2000
TickPeriod == 1000

\* a & b on naturals
RECURSIVE BitAnd(_, _)
BitAnd(a, b) ==
    IF a = 0 \/ b = 0 THEN 0
    ELSE (a % 2) * (b % 2) + 2 * BitAnd(a \div 2, b \div 2)

\* math.IsPowerOfTwo: n > 0 && (n&(n-1)) == 0
IsPowerOfTwo(n) == n > 0 /\ BitAnd(n, n - 1) = 0

\* the result a build gives uint64 of a float64 that uint64 cannot hold
\* (Go leaves it to the implementation): zero where the conversion
\* saturates, a huge number where it goes through int64
OutOfRangeUint64 == {0, 2147483647}

\* uint64(d.Seconds()) for a duration d in milliseconds: the fraction is
\* dropped; a value of -1 or below is out of the range of uint64
lifeWindowSeconds(d) ==
    IF d >= 0 THEN {d \div 1000}
    ELSE IF d > -1000 THEN {0}
    ELSE OutOfRangeUint64

\* config.initialShardSize() and config.maximumShardSizeInBytes()
initialShardSize(config) == config.MaxEntriesInWindow \div config.Shards
maximumShardSizeInBytes(config) == (config.HardMaxCacheSize * 1048576) \div config.Shards

\* what initNewShard keeps of the configuration
shardConfig(config, lw) ==
    [lifeWindow |-> lw, cleanEnabled |-> config.CleanWindow > 0, statsEnabled |-> FALSE]

NoShards == [i \in {} |-> 0]

\* the closure newBigCache hands to every shard as its onRemove: the first
\* of OnRemoveWithMetadata, OnRemove and OnRemoveWithReason that is not nil
\* (TRUE here), tested in that order
onRemoveOf(config) ==
    IF config.OnRemoveWithMetadata THEN "provideOnRemoveWithMetadata"
    ELSE IF config.OnRemove THEN "providedOnRemove"
    ELSE IF config.OnRemoveWithReason THEN "providedOnRemoveWithReason"
    ELSE "notProvideOnRemove"

\* onRemoveFilter == 0 || (1<<uint(reason))&onRemoveFilter > 0
passesFilter(config, reason) ==
    config.onRemoveFilter = 0 \/ BitAnd(Pow(2, reason), config.onRemoveFilter) > 0

\* the calls of the functions of the configuration that the closure makes
\* for the removal rm
userCalls(closure, config, rm) ==
    CASE closure = "provideOnRemoveWithMetadata" ->
           <<[fn |-> "OnRemoveWithMetadata", key |-> rm.key, entry |-> rm.entry]>>
      [] closure = "providedOnRemove" ->
           <<[fn |-> "OnRemove", key |-> rm.key, entry |-> rm.entry]>>
      [] closure = "providedOnRemoveWithReason" ->
           IF passesFilter(config, rm.reason)
           THEN <<[fn |-> "OnRemoveWithReason", key |-> rm.key, entry |-> rm.entry]>>
           ELSE <<>>
      [] OTHER -> <<>>

\* the calls made for the removals of one operation, in order
RECURSIVE userCallsFor(_, _, _)
userCallsFor(closure, config, removed) ==
    IF removed = <<>> THEN <<>>
    ELSE userCalls(closure, config, Head(removed))
           \o userCallsFor(closure, config, Tail(removed))

Unbuilt(config) ==
    [state |-> "unbuilt", err |-> "nil", config |-> config, shards |-> NoShards,
     shardCfg |-> shardConfig(config, 0), lifeWindow |-> 0, shardMask |-> 0,
     onRemove |-> "nil", closed |-> FALSE, panicked |-> FALSE]

\* return nil, errors.New(err)
failedWith(config, err) == [Unbuilt(config) EXCEPT !.state = "failed", !.err = err]

\* the cache of newBigCache once the configuration has passed the checks
builtFrom(config, lw) ==
    [state |-> "built", err |-> "nil", config |-> config,
     shards |-> [i \in 0..(config.Shards - 1) |->
                    initNewShard(initialShardSize(config) * config.MaxEntrySize,
                                 maximumShardSizeInBytes(config))],
     shardCfg |-> shardConfig(config, lw), lifeWindow |-> lw,
     shardMask |-> config.Shards - 1, onRemove |-> onRemoveOf(config),
     closed |-> FALSE, panicked |-> FALSE]

\* newBigCache(ctx, config, clock), lw being uint64(config.LifeWindow.Seconds())
newBigCache(config, lw) ==
    IF ~IsPowerOfTwo(config.Shards)
    THEN failedWith(config, "shards number must be power of two")
    ELSE IF config.MaxEntrySize < 0
    THEN failedWith(config, "MaxEntrySize must be >= 0")
    ELSE IF config.MaxEntriesInWindow < 0
    THEN failedWith(config, "MaxEntriesInWindow must be >= 0")
    ELSE IF config.HardMaxCacheSize < 0
    THEN failedWith(config, "HardMaxCacheSize must be >= 0")
    ELSE IF config.CleanWindow > 0 /\ lw = 0
    THEN failedWith(config, "LifeWindow must be > 0 when CleanWindow is set")
    ELSE builtFrom(config, lw)

\* no goroutine: the ticker holds no tick, the context is not done.  late
\* and pendingLate (ghost) say that the tick received, or the tick waiting
\* in ticker.C, fired after Close
NoCleaner ==
    [pc |-> "none", pending |-> FALSE, pendingTime |-> 0, tickTime |-> 0,
     done |-> FALSE, late |-> FALSE, pendingLate |-> FALSE]

\* if config.CleanWindow > 0 { go func() {...}() }
cleanerOf(c) ==
    IF c.state = "built" /\ c.config.CleanWindow > 0
    THEN [NoCleaner EXCEPT !.pc = "starting"] ELSE NoCleaner

FrontConfigs ==
    [Shards : 0..MaxShards, MaxEntrySize : {-1, 0}, MaxEntriesInWindow : {-1, 0},
     HardMaxCacheSize : {-1, 0},
     LifeWindow : {-LongWindow, 0, ShortWindow, LongWindow},
     CleanWindow : {0, TickPeriod},
     OnRemove : {FALSE}, OnRemoveWithReason : {FALSE}, OnRemoveWithMetadata : {FALSE},
     onRemoveFilter : {0}]

\* configurations that pass the checks and differ in the callbacks given
\* and in the filter of reasons: none, or Deleted only
CallbackConfigs ==
    [Shards : {1}, MaxEntrySize : {0}, MaxEntriesInWindow : {0}, HardMaxCacheSize : {0},
     LifeWindow : {LongWindow}, CleanWindow : {0, TickPeriod},
     OnRemove : BOOLEAN, OnRemoveWithReason : BOOLEAN, OnRemoveWithMetadata : BOOLEAN,
     onRemoveFilter : {0, Pow(2, Deleted)}]

FrontKeys == {KeyA, KeyC}

\* removals (ghost) counts the entries the call removed, calls lists the
\* calls of the configuration's callbacks it made
NoFrontCall == [op |-> "none", key |-> <<>>, index |-> 0, err |-> "nil", late |-> FALSE,
                removals |-> 0, calls |-> <<>>]

FrontStarts(config) ==
    /\ bigcache = Unbuilt(config)
    /\ cleaner = NoCleaner
    /\ clk = 0
    /\ flast = NoFrontCall
    /\ fsteps = 0

FrontInit == \E config \in FrontConfigs : FrontStarts(config)

CallbackInit == \E config \in CallbackConfigs : FrontStarts(config)

FrontIdle ==
    FrontStarts([Shards |-> 1, MaxEntrySize |-> 0, MaxEntriesInWindow |-> 0,
                 HardMaxCacheSize |-> 0, LifeWindow |-> 0, CleanWindow |-> 0,
                 OnRemove |-> FALSE, OnRemoveWithReason |-> FALSE,
                 OnRemoveWithMetadata |-> FALSE, onRemoveFilter |-> 0])

\* New(ctx, config) / NewBigCache(config)
NewReturns(c) ==
    /\ bigcache.state = "unbuilt"
    /\ bigcache' = c
    /\ cleaner' = cleanerOf(c)
    /\ flast' = [NoFrontCall EXCEPT !.op = "New", !.err = c.err]
    /\ UNCHANGED <<clk, fsteps>>

New ==
    \E lw \in lifeWindowSeconds(bigcache.config.LifeWindow) :
        NewReturns(newBigCache(bigcache.config, lw))

\* one more call or event on a cache that was built
FrontStep ==
    /\ bigcache.state = "built" /\ ~bigcache.panicked
    /\ fsteps < MaxFrontOps
    /\ fsteps' = fsteps + 1

\* a variant of getShard that leaves the mask out
getShardUnmasked(c, hashedKey) == hashedKey

\* getShard: the index hashedKey & c.shardMask of the shard it returns
getShard(c, hashedKey) == BitAnd(hashedKey, c.shardMask)

\* the call op of a key-based method on the shard s
shardCall(op, s, c, key, entry, hashedKey) ==
    CASE op = "Get" -> get(s, c.shardCfg, key, hashedKey)
      [] op = "GetWithInfo" -> getWithInfo(s, c.shardCfg, clk, key, hashedKey)
      [] op = "Set" -> set(s, c.shardCfg, clk, key, hashedKey, entry)
      [] op = "Append" -> append(s, c.shardCfg, clk, key, hashedKey, entry)
      [] op = "Delete" -> del(s, c.shardCfg, hashedKey)

\* the removals s.onRemove was called for during the call: the reads make none
removedBy(op, r) == IF op \in {"Get", "GetWithInfo"} THEN <<>> ELSE r.removed

\* the method has run on shard index and returned r
routedReturns(op, key, index, r) ==
    /\ FrontStep
    /\ bigcache' = IF r.err = "panic" THEN [bigcache EXCEPT !.panicked = TRUE]
                   ELSE [bigcache EXCEPT !.shards[index] = r.s]
    /\ flast' = [NoFrontCall EXCEPT !.op = op, !.key = key, !.index = index,
                                    !.err = r.err,
                                    !.removals = Len(removedBy(op, r)),
                                    !.calls = userCallsFor(bigcache.onRemove, bigcache.config,
                                                           removedBy(op, r))]
    /\ UNCHANGED <<cleaner, clk>>

\* c.shards[index] with an index out of range is a run-time panic
routedOutOfRange(op, key, index) ==
    /\ FrontStep
    /\ bigcache' = [bigcache EXCEPT !.panicked = TRUE]
    /\ flast' = [NoFrontCall EXCEPT !.op = op, !.key = key, !.index = index,
                                    !.err = "panic"]
    /\ UNCHANGED <<cleaner, clk>>

\* hashedKey := c.hash.Sum64(key); shard := c.getShard(hashedKey);
\* return shard.op(key, hashedKey, ...)
routed(op, key, entry, index) ==
    IF index \in DOMAIN bigcache.shards
    THEN routedReturns(op, key, index,
                       shardCall(op, bigcache.shards[index], bigcache, key, entry,
                                 Sum64(key)))
    ELSE routedOutOfRange(op, key, index)

BigCacheGet(key) == routed("Get", key, <<>>, getShard(bigcache, Sum64(key)))
BigCacheGetWithInfo(key) == routed("GetWithInfo", key, <<>>, getShard(bigcache, Sum64(key)))
BigCacheSet(key, entry) == routed("Set", key, entry, getShard(bigcache, Sum64(key)))
BigCacheAppend(key, entry) == routed("Append", key, entry, getShard(bigcache, Sum64(key)))
BigCacheDelete(key) == routed("Delete", key, <<>>, getShard(bigcache, Sum64(key)))

\* the clock passes the life window
ClockAdvances ==
    /\ FrontStep
    /\ clk = 0
    /\ clk' = clk + LifeWindow + 1
    /\ flast' = [NoFrontCall EXCEPT !.op = "Clock"]
    /\ UNCHANGED <<bigcache, cleaner>>

\* a goroutine blocked in the select receives the first case that becomes
\* ready: here a return case
wokenToReturn(g) == IF g.pc = "parked" THEN [g EXCEPT !.pc = "woken"] ELSE g

\* Close: close(c.close); closing a closed channel is a run-time panic.
\* Close returns without waiting for the goroutine.
Close ==
    /\ FrontStep
    /\ bigcache' = IF bigcache.closed THEN [bigcache EXCEPT !.panicked = TRUE]
                   ELSE [bigcache EXCEPT !.closed = TRUE]
    /\ cleaner' = wokenToReturn(cleaner)
    /\ flast' = [NoFrontCall EXCEPT !.op = "Close",
                                    !.err = IF bigcache.closed THEN "panic" ELSE "nil"]
    /\ UNCHANGED clk

\* the caller cancels ctx
CtxDone ==
    /\ FrontStep
    /\ ~cleaner.done
    /\ cleaner' = [wokenToReturn(cleaner) EXCEPT !.done = TRUE]
    /\ flast' = [NoFrontCall EXCEPT !.op = "CtxDone"]
    /\ UNCHANGED <<bigcache, clk>>

\* the goroutine starts: ticker := time.NewTicker(config.CleanWindow), then
\* the select, where only a return case can be ready
TaskStarts ==
    /\ cleaner.pc = "starting"
    /\ cleaner' = [cleaner EXCEPT
                      !.pc = IF bigcache.closed \/ cleaner.done THEN "select" ELSE "parked"]
    /\ UNCHANGED <<bigcache, clk, flast, fsteps>>

\* the ticker fires: a goroutine blocked in the select receives the tick; one
\* that is busy finds it in ticker.C later, and a tick that finds ticker.C
\* full is dropped
tickOf(g, t, afterClose) ==
    IF g.pc = "parked"
    THEN [g EXCEPT !.pc = "cleaning", !.tickTime = t, !.late = afterClose]
    ELSE IF g.pending THEN g
    ELSE [g EXCEPT !.pending = TRUE, !.pendingTime = t, !.pendingLate = afterClose]

TickerFires ==
    /\ cleaner.pc \in {"parked", "cleaning", "select", "woken"}
    /\ fsteps < MaxFrontOps
    /\ fsteps' = fsteps + 1
    /\ clk' = clk + 1
    /\ cleaner' = tickOf(cleaner, clk + 1, bigcache.closed)
    /\ flast' = [NoFrontCall EXCEPT !.op = "Tick"]
    /\ UNCHANGED bigcache

\* BigCache.cleanUp: shard.cleanUp(currentTimestamp) on every shard
cleanedShards(c, r) ==
    [c EXCEPT !.shards = [i \in DOMAIN c.shards |-> r[i].s],
              !.panicked = \E i \in DOMAIN c.shards : r[i].err = "panic"]

bigCacheCleanUp(c, currentTimestamp) ==
    cleanedShards(c, [i \in DOMAIN c.shards |->
                         cleanUp(c.shards[i], c.shardCfg, currentTimestamp)])

\* the removals of a cleanUp pass, shard after shard from index i on
RECURSIVE cleanUpRemoved(_, _, _)
cleanUpRemoved(c, currentTimestamp, i) ==
    IF i \notin DOMAIN c.shards THEN <<>>
    ELSE cleanUp(c.shards[i], c.shardCfg, currentTimestamp).removed
           \o cleanUpRemoved(c, currentTimestamp, i + 1)

\* case t := <-ticker.C: cache.cleanUp(uint64(t.Unix())), then back to the
\* select: with no case ready the goroutine blocks
TaskCleans ==
    /\ cleaner.pc = "cleaning"
    /\ ~bigcache.panicked
    /\ bigcache' = bigCacheCleanUp(bigcache, cleaner.tickTime)
    /\ cleaner' = [cleaner EXCEPT
                      !.pc = IF cleaner.pending \/ bigcache.closed \/ cleaner.done
                             THEN "select" ELSE "parked"]
    /\ flast' = [NoFrontCall EXCEPT
                    !.op = "cleanUp", !.late = cleaner.late,
                    !.removals = Len(cleanUpRemoved(bigcache, cleaner.tickTime, 0)),
                    !.calls = userCallsFor(bigcache.onRemove, bigcache.config,
                                           cleanUpRemoved(bigcache, cleaner.tickTime, 0))]
    /\ UNCHANGED <<clk, fsteps>>

\* the select with cases ready: one of them is chosen, whichever
TaskSelectsTick ==
    /\ cleaner.pc = "select"
    /\ cleaner.pending
    /\ cleaner' = [cleaner EXCEPT !.pc = "cleaning", !.pending = FALSE,
                                  !.tickTime = cleaner.pendingTime,
                                  !.late = cleaner.pendingLate]
    /\ UNCHANGED <<bigcache, clk, flast, fsteps>>

\* case <-ctx.Done() or case <-cache.close: return
TaskSelectsReturn ==
    /\ cleaner.pc = "select"
    /\ bigcache.closed \/ cleaner.done
    /\ cleaner' = [cleaner EXCEPT !.pc = "woken"]
    /\ UNCHANGED <<bigcache, clk, flast, fsteps>>

\* return; defer ticker.Stop()
TaskExits ==
    /\ cleaner.pc = "woken"
    /\ cleaner' = [cleaner EXCEPT !.pc = "exited", !.pending = FALSE]
    /\ UNCHANGED <<bigcache, clk, flast, fsteps>>

(***************************************************************************)
(* Or (concurrent/or_done.go): the channel that closes when an input does *)
(***************************************************************************)
\* the largest number of channels handed to Or
MaxOrInputs == 5

\* a channel is open with no value to receive, offers a value (a sender is
\* waiting or the buffer holds one), or is closed; the nil channel is 0
ChanStates == {"open", "offered", "closed"}

\* a receive from ch would not block
ready(chans, ch) == ch # 0 /\ chans[ch] # "open"

\* the channels after a receive from ch
received(chans, ch) ==
    IF chans[ch] = "offered" THEN [chans EXCEPT ![ch] = "open"] ELSE chans

\* Or(channels...): nil for no channel, the channel itself for one, and
\* otherwise a new channel orDone and a goroutine that will close it
Or(channels, chans, routines) ==
    IF Len(channels) = 0 THEN [ret |-> 0, chans |-> chans, routines |-> routines]
    ELSE IF Len(channels) = 1
    THEN [ret |-> channels[1], chans |-> chans, routines |-> routines]
    ELSE [ret |-> Len(chans) + 1,
          chans |-> Append(chans, "open"),
          routines |-> Append(routines, [channels |-> channels, orDone |-> Len(chans) + 1,
                                         cases |-> <<>>, pc |-> "go"])]

\* a select with a default case
selectFallsThrough == FALSE
\* the select of a goroutine behaves as the code's: it blocks until a case
\* is ready
selectBlocks == TRUE

\* the cases of the select of goroutine g, whose evaluation calls Or again
\* when there are more than two channels
casesOf(g, chans, routines) ==
    IF Len(routines[g].channels) = 2
    THEN [ret |-> routines[g].channels, chans |-> chans, routines |-> routines]
    ELSE [ret |-> <<routines[g].channels[1], routines[g].channels[2], routines[g].channels[3],
                    Or(Append(SubSeq(routines[g].channels, 4, Len(routines[g].channels)),
                              routines[g].orDone), chans, routines).ret>>,
          chans |-> Or(Append(SubSeq(routines[g].channels, 4, Len(routines[g].channels)),
                              routines[g].orDone), chans, routines).chans,
          routines |-> Or(Append(SubSeq(routines[g].channels, 4, Len(routines[g].channels)),
                                 routines[g].orDone), chans, routines).routines]

OrIdle ==
    /\ orChans = <<>>
    /\ orGo = <<>>
    /\ orCall = [channels |-> <<>>, result |-> 0, delivered |-> FALSE]

\* the caller makes n channels and calls Or on them
OrStarts(n) ==
    /\ orChans = Or([i \in 1..n |-> i], [i \in 1..n |-> "open"], <<>>).chans
    /\ orGo = Or([i \in 1..n |-> i], [i \in 1..n |-> "open"], <<>>).routines
    /\ orCall = [channels |-> [i \in 1..n |-> i],
                 result |-> Or([i \in 1..n |-> i], [i \in 1..n |-> "open"], <<>>).ret,
                 delivered |-> FALSE]

OrInit == \E n \in 0..MaxOrInputs : OrStarts(n)

\* the goroutine reaches its select and evaluates the channels of the cases
GoEvaluates(g) ==
    /\ g \in 1..Len(orGo)
    /\ orGo[g].pc = "go"
    /\ orChans' = casesOf(g, orChans, orGo).chans
    /\ orGo' = [casesOf(g, orChans, orGo).routines EXCEPT
                   ![g].cases = casesOf(g, orChans, orGo).ret, ![g].pc = "select"]
    /\ UNCHANGED orCall

\* the select takes a ready case: it receives from that channel
GoSelects(g) ==
    /\ g \in 1..Len(orGo)
    /\ orGo[g].pc = "select"
    /\ \E k \in 1..Len(orGo[g].cases) :
          /\ selectBlocks => ready(orChans, orGo[g].cases[k])
          /\ orGo[g].cases[k] # 0
          /\ orChans' = received(orChans, orGo[g].cases[k])
          /\ orCall' = [orCall EXCEPT !.delivered =
                           @ \/ (/\ orGo[g].cases[k] <= Len(orCall.channels)
                                 /\ orChans[orGo[g].cases[k]] = "offered")]
    /\ orGo' = [orGo EXCEPT ![g].pc = "return"]

\* defer close(orDone)
GoCloses(g) ==
    /\ g \in 1..Len(orGo)
    /\ orGo[g].pc = "return"
    /\ orChans' = [orChans EXCEPT ![orGo[g].orDone] = "closed"]
    /\ orGo' = [orGo EXCEPT ![g].pc = "done"]
    /\ UNCHANGED orCall

GoSteps(g) == GoEvaluates(g) \/ GoSelects(g) \/ GoCloses(g)

\* the owner of input i closes it
InputCloses(i) ==
    /\ i \in 1..Len(orCall.channels)
    /\ orChans[i] # "closed"
    /\ orChans' = [orChans EXCEPT ![i] = "closed"]
    /\ UNCHANGED <<orGo, orCall>>

\* a sender offers a value on input i
InputOffers(i) ==
    /\ i \in 1..Len(orCall.channels)
    /\ orChans[i] = "open"
    /\ orChans' = [orChans EXCEPT ![i] = "offered"]
    /\ UNCHANGED <<orGo, orCall>>

\* another receiver takes the value offered on input i
InputTaken(i) ==
    /\ i \in 1..Len(orCall.channels)
    /\ orChans[i] = "offered"
    /\ orChans' = [orChans EXCEPT ![i] = "open"]
    /\ UNCHANGED <<orGo, orCall>>

(***************************************************************************)
(* run.Group (lock/lockedfile/lockedfile_filelock.go): actors run together *)
(***************************************************************************)
\* the largest number of actors added to a Group
MaxActors == 3

\* the error an actor's execute may return: nil (0) or an error of its own
ErrorsOf(a) == {0, a}

\* Add(execute, interrupt) for each of n actors; waits[a] says that the
\* execute of actor a returns only once its interrupt has been called
GroupOf(n, waits) ==
    [actors |-> [a \in 1..n |-> [state |-> "added", waits |-> waits[a], err |-> 0,
                                  interrupted |-> 0, told |-> <<>>]],
     errors |-> <<>>, cap |-> 0]

GroupStarts(n, waits) ==
    /\ group = GroupOf(n, waits)
    /\ runner = [pc |-> "call", err |-> 0, i |-> 0, ret |-> 0, firstExit |-> 0]

GroupIdle == GroupStarts(0, <<>>)

GroupInit == \E n \in 0..MaxActors : \E waits \in [1..n -> BOOLEAN] : GroupStarts(n, waits)


\* Run: no actor, return nil; else make(chan error, len(g.actors)) and start
\* a goroutine per actor
RunStarts ==
    /\ runner.pc = "call"
    /\ IF Len(group.actors) = 0
       THEN /\ runner' = [runner EXCEPT !.pc = "returned", !.ret = 0]
            /\ UNCHANGED group
       ELSE /\ group' = [group EXCEPT
                           !.actors = [a \in 1..Len(group.actors) |->
                                          [group.actors[a] EXCEPT !.state = "executing"]],
                           !.cap = Len(group.actors)]
            /\ runner' = [runner EXCEPT !.pc = "first"]

\* a.execute() returns e
ExecuteReturns(a, e) ==
    /\ a \in 1..Len(group.actors)
    /\ group.actors[a].state = "executing"
    /\ group.actors[a].waits => group.actors[a].interrupted > 0
    /\ group' = [group EXCEPT !.actors[a].state = "returned", !.actors[a].err = e]
    /\ runner' = [runner EXCEPT !.firstExit = IF @ = 0 THEN a ELSE @]

\* errors <- (the value execute returned); the buffer has room for every actor
ResultSent(a) ==
    /\ a \in 1..Len(group.actors)
    /\ group.actors[a].state = "returned"
    /\ Len(group.errors) < group.cap
    /\ group' = [group EXCEPT !.actors[a].state = "exited",
                              !.errors = Append(@, group.actors[a].err)]
    /\ UNCHANGED runner

\* err := <-errors
FirstReceived ==
    /\ runner.pc = "first"
    /\ Len(group.errors) > 0
    /\ runner' = [runner EXCEPT !.pc = "interrupt", !.err = Head(group.errors), !.i = 1]
    /\ group' = [group EXCEPT !.errors = Tail(@)]

\* for _, a := range g.actors { a.interrupt(err) }
Interrupts ==
    /\ runner.pc = "interrupt"
    /\ group' = [group EXCEPT !.actors[runner.i].interrupted = @ + 1,
                              !.actors[runner.i].told = Append(@, runner.err)]
    /\ runner' = IF runner.i < Len(group.actors)
                 THEN [runner EXCEPT !.i = @ + 1]
                 ELSE [runner EXCEPT !.pc = "drain", !.i = 1]

\* for i := 1; i < cap(errors); i++ { <-errors }
Drains ==
    /\ runner.pc = "drain"
    /\ runner.i < group.cap
    /\ Len(group.errors) > 0
    /\ group' = [group EXCEPT !.errors = Tail(@)]
    /\ runner' = [runner EXCEPT !.i = @ + 1]

\* return err
RunReturns ==
    /\ runner.pc = "drain"
    /\ runner.i >= group.cap
    /\ runner' = [runner EXCEPT !.pc = "returned", !.ret = runner.err]
    /\ UNCHANGED group

(***************************************************************************)
(* The shard under concurrent callers and the clean-up (shard.go's locks)  *)
(***************************************************************************)
\* the threads that call Get, Set, Append and Delete, and the calls they
\* make between them
NumCallers == 2
MaxCalls == 3
\* the clean-up goroutine and the times it runs
Cleaner == NumCallers + 1
MaxCleans == 1
\* the time of the calls; the frames written before them carry the time 0
ConcNow == LifeWindow + 1
ConcKeys == {KeyA, KeyC}
ConcValues == {ShortValue, OtherValue}

\* s.lock.RLock() returns once no writer holds the lock
canRLockAlways(l) == TRUE
canRLock(l) == l.writer = 0
\* s.lock.Lock() returns once nobody holds the lock
canLock(l) == l.writer = 0 /\ l.readers = {}

RLocked(l, t) == [l EXCEPT !.readers = @ \cup {t}]
\* a variant of RUnlocked that leaves the caller among the readers
RUnlockedNever(l, t) == l
RUnlocked(l, t) == [l EXCEPT !.readers = @ \ {t}]
Locked(l, t) == [l EXCEPT !.writer = t]
Unlocked(l, t) == [l EXCEPT !.writer = IF @ = t THEN 0 ELSE @]

\* a thread between calls
Resting(n) == [pc |-> "idle", op |-> "none", key |-> <<>>, entry |-> <<>>,
               itemIndex |-> 0, off |-> 0, n |-> 0, calls |-> n]

NoReturn == [thread |-> 0, op |-> "none", at |-> "idle", key |-> <<>>, err |-> "nil",
             entry |-> <<>>, removed |-> <<>>]

\* the value Get returns for key in s, if any
ValuesIn(s, c, key) ==
    IF get(s, c, key, Sum64(key)).err = "nil" THEN {get(s, c, key, Sum64(key)).entry} ELSE {}

ConcStarts(s, c) ==
    /\ conc = [shard |-> s, cfg |-> c, now |-> ConcNow, crashed |-> FALSE]
    /\ lock = [writer |-> 0, readers |-> {}]
    /\ threads = [t \in 1..Cleaner |-> Resting(0)]
    /\ audit = [written |-> [k \in AllKeys |-> ValuesIn(s, c, k)], deletedNil |-> {},
                returns |-> 0, last |-> NoReturn]

ConcConfigs == [lifeWindow : {LifeWindow}, cleanEnabled : {TRUE}, statsEnabled : BOOLEAN]

\* a shard of two frames at most that cannot grow
EmptyShard == initNewShard(EvictInitialBytes, EvictInitialBytes)
\* the shards the calls start from: empty, or full with a frame each for
\* KeyA and KeyC, written at time 0
ConcShards(c) ==
    {EmptyShard,
     set(set(EmptyShard, c, 0, KeyA, Sum64(KeyA), ShortValue).s,
         c, 0, KeyC, Sum64(KeyC), ShortValue).s}

ConcInit == \E c \in ConcConfigs : \E s \in ConcShards(c) : ConcStarts(s, c)

\* the bytes of a shard that holds one frame with a value of two bytes at most
NarrowShardBytes == 23

\* the calls on a shard of one frame that cannot grow
ConcTightInit ==
    \E c \in ConcConfigs : ConcStarts(initNewShard(NarrowShardBytes, NarrowShardBytes), c)

ConcIdle == ConcStarts(EmptyShard, [lifeWindow |-> LifeWindow, cleanEnabled |-> TRUE,
                                    statsEnabled |-> FALSE])

\* the calls the first n threads have started
RECURSIVE CallsMade(_, _)
CallsMade(th, n) == IF n = 0 THEN 0 ELSE th[n].calls + CallsMade(th, n - 1)

\* thread t may start a call
MayCall(t) ==
    /\ ~conc.crashed
    /\ t \in 1..NumCallers
    /\ threads[t].pc = "idle"
    /\ CallsMade(threads, NumCallers) < MaxCalls

\* thread t is at pc
At(t, pc) == ~conc.crashed /\ threads[t].pc = pc

\* the call of thread t returns err (and entry, and has removed the frames rm)
Returned(t, err, entry, rm) ==
    [audit EXCEPT !.returns = @ + 1,
                  !.last = [thread |-> t, op |-> threads[t].op, at |-> threads[t].pc,
                            key |-> threads[t].key, err |-> err, entry |-> entry,
                            removed |-> rm]]

Rests(t) == [threads EXCEPT ![t] = Resting(threads[t].calls)]

\* the bytes of the slice wrappedEntry of thread t, as the arena holds them now
SliceOf(t) == ArenaBytes(conc.shard, threads[t].off, threads[t].n)

\* get: s.lock.RLock()
GetRLocks(t, key) ==
    /\ MayCall(t)
    /\ canRLock(lock)
    /\ lock' = RLocked(lock, t)
    /\ threads' = [threads EXCEPT ![t].pc = "get.find", ![t].op = "Get", ![t].key = key,
                                  ![t].calls = @ + 1]
    /\ UNCHANGED <<conc, audit>>

\* get: wrappedEntry, err := s.getWrappedEntry(hashedKey); on an error
\* RUnlock and return it
GetFindsOn(t, itemIndex, w) ==
    IF w.err = "nil"
    THEN /\ threads' = [threads EXCEPT
                          ![t].pc = "get.compare", ![t].itemIndex = itemIndex,
                          ![t].off = itemIndex +
                              (QueueGet(conc.shard.entries, itemIndex).blockSize - Len(w.data)),
                          ![t].n = Len(w.data)]
         /\ UNCHANGED <<conc, lock, audit>>
    ELSE /\ conc' = [conc EXCEPT !.shard = w.s, !.crashed = (w.err = "panic")]
         /\ lock' = RUnlocked(lock, t)
         /\ threads' = Rests(t)
         /\ audit' = Returned(t, w.err, <<>>, <<>>)

GetFinds(t) ==
    /\ At(t, "get.find")
    /\ GetFindsOn(t, MapGet(conc.shard.hashmap, Sum64(threads[t].key)),
                  getWrappedEntry(conc.shard, Sum64(threads[t].key)))

\* get: if entryKey := readKeyFromEntry(wrappedEntry); key != entryKey, then
\* RUnlock, count the collision, return ErrEntryNotFound
GetCompares(t) ==
    /\ At(t, "get.compare")
    /\ IF ~FrameReadable(SliceOf(t))
       THEN /\ conc' = [conc EXCEPT !.crashed = TRUE]
            /\ audit' = Returned(t, "panic", <<>>, <<>>)
            /\ UNCHANGED <<lock, threads>>
       ELSE IF threads[t].key # readKeyFromEntry(SliceOf(t))
       THEN /\ conc' = [conc EXCEPT !.shard = collision(@)]
            /\ lock' = RUnlocked(lock, t)
            /\ threads' = Rests(t)
            /\ audit' = Returned(t, "ErrEntryNotFound", <<>>, <<>>)
       ELSE /\ threads' = [threads EXCEPT ![t].pc = "get.read"]
            /\ UNCHANGED <<conc, lock, audit>>

\* get: entry := readEntry(wrappedEntry); s.lock.RUnlock()
GetReads(t) ==
    /\ At(t, "get.read")
    /\ IF ~FrameReadable(SliceOf(t))
       THEN /\ conc' = [conc EXCEPT !.crashed = TRUE]
            /\ audit' = Returned(t, "panic", <<>>, <<>>)
            /\ UNCHANGED <<lock, threads>>
       ELSE /\ threads' = [threads EXCEPT ![t].pc = "get.hit",
                                          ![t].entry = readEntry(SliceOf(t))]
            /\ lock' = RUnlocked(lock, t)
            /\ UNCHANGED <<conc, audit>>

\* hit takes the write lock for the counter of the key
hitSkipsLock == FALSE
hitTakesLock == TRUE

\* s.hit(hashedKey): the atomic add, and with statistics the locked update;
\* without statistics get returns here
GetHits(t) ==
    /\ At(t, "get.hit")
    /\ conc' = [conc EXCEPT !.shard.stats.Hits = @ + 1]
    /\ IF conc.cfg.statsEnabled
       THEN /\ threads' = [threads EXCEPT
                             ![t].pc = IF hitTakesLock THEN "hit.lock" ELSE "hit.count"]
            /\ UNCHANGED audit
       ELSE /\ threads' = Rests(t)
            /\ audit' = Returned(t, "nil", threads[t].entry, <<>>)
    /\ UNCHANGED lock

\* hit: s.lock.Lock()
HitLocks(t) ==
    /\ At(t, "hit.lock")
    /\ canLock(lock)
    /\ lock' = Locked(lock, t)
    /\ threads' = [threads EXCEPT ![t].pc = "hit.count"]
    /\ UNCHANGED <<conc, audit>>

\* hit: s.hashmapStats[key]++; the deferred Unlock; get returns entry, nil
HitCounts(t) ==
    /\ At(t, "hit.count")
    /\ conc' = [conc EXCEPT !.shard.hashmapStats =
                    MapPut(@, Sum64(threads[t].key), MapGet(@, Sum64(threads[t].key)) + 1)]
    /\ lock' = Unlocked(lock, t)
    /\ threads' = Rests(t)
    /\ audit' = Returned(t, "nil", threads[t].entry, <<>>)

\* set and append: s.lock.Lock()
WriteLocks(t, op, key, entry) ==
    /\ MayCall(t)
    /\ canLock(lock)
    /\ lock' = Locked(lock, t)
    /\ threads' = [threads EXCEPT ![t].pc = "write", ![t].op = op, ![t].key = key,
                                  ![t].entry = entry, ![t].calls = @ + 1]
    /\ UNCHANGED <<conc, audit>>

\* a variant of writeUnlocks that leaves the lock held when the write failed
writeUnlocksStored(l, t, err) == IF err = "nil" THEN Unlocked(l, t) ELSE l

\* set and append: s.lock.Unlock() before return nil and before the return
\* of the error
writeUnlocks(l, t, err) == Unlocked(l, t)

\* the body of set or append has returned r: Unlock and return
WriteReturns(t, r) ==
    /\ conc' = [conc EXCEPT !.shard = IF r.err = "panic" THEN @ ELSE r.s,
                            !.crashed = (r.err = "panic")]
    /\ lock' = writeUnlocks(lock, t, r.err)
    /\ threads' = Rests(t)
    /\ audit' = [Returned(t, r.err, <<>>, r.removed) EXCEPT
                    !.written[threads[t].key] =
                        IF r.err = "nil" THEN @ \cup ValuesIn(r.s, conc.cfg, threads[t].key)
                        ELSE @,
                    !.deletedNil = @ \ {Sum64(threads[t].key)}]

\* set under the lock, from the tombstone of the previous frame to the Unlock
SetWrites(t) ==
    /\ At(t, "write")
    /\ threads[t].op = "Set"
    /\ WriteReturns(t, set(conc.shard, conc.cfg, conc.now, threads[t].key,
                           Sum64(threads[t].key), threads[t].entry))

\* append under the lock
AppendWrites(t) ==
    /\ At(t, "write")
    /\ threads[t].op = "Append"
    /\ WriteReturns(t, append(conc.shard, conc.cfg, conc.now, threads[t].key,
                              Sum64(threads[t].key), threads[t].entry))

\* del: s.lock.RLock()
DeleteRLocks(t, key) ==
    /\ MayCall(t)
    /\ canRLock(lock)
    /\ lock' = RLocked(lock, t)
    /\ threads' = [threads EXCEPT ![t].pc = "del.check", ![t].op = "Delete", ![t].key = key,
                                  ![t].calls = @ + 1]
    /\ UNCHANGED <<conc, audit>>

\* del, the optimistic check under the read lock: no index or no frame is
\* an error; s.lock.RUnlock()
DeleteChecksOn(t, itemIndex) ==
    /\ lock' = RUnlocked(lock, t)
    /\ IF itemIndex = 0 \/ CheckGet(conc.shard.entries, itemIndex) # "nil"
       THEN /\ conc' = [conc EXCEPT !.shard = delmiss(@)]
            /\ threads' = Rests(t)
            /\ audit' = Returned(t, IF itemIndex = 0 THEN "ErrEntryNotFound"
                                    ELSE CheckGet(conc.shard.entries, itemIndex), <<>>, <<>>)
       ELSE /\ threads' = [threads EXCEPT ![t].pc = "del.lock", ![t].itemIndex = itemIndex]
            /\ UNCHANGED <<conc, audit>>

DeleteChecks(t) ==
    /\ At(t, "del.check")
    /\ DeleteChecksOn(t, MapGet(conc.shard.hashmap, Sum64(threads[t].key)))

\* del: s.lock.Lock()
DeleteLocks(t) ==
    /\ At(t, "del.lock")
    /\ canLock(lock)
    /\ lock' = Locked(lock, t)
    /\ threads' = [threads EXCEPT ![t].pc = "del.remove"]
    /\ UNCHANGED <<conc, audit>>

\* a del that trusts the index it read under the read lock
checkedIndex(s, hashedKey, checked) == checked
\* del under the write lock reads the index again
lockedIndex(s, hashedKey, checked) == MapGet(s.hashmap, hashedKey)

\* the second phase of del has returned r: Unlock and return
DeleteReturns2(t, r) ==
    /\ conc' = [conc EXCEPT !.shard = IF r.err = "panic" THEN @ ELSE r.s,
                            !.crashed = (r.err = "panic")]
    /\ lock' = Unlocked(lock, t)
    /\ threads' = Rests(t)
    /\ audit' = [Returned(t, r.err, <<>>, r.removed) EXCEPT
                    !.deletedNil = IF r.err = "nil" THEN @ \cup {Sum64(threads[t].key)}
                                   ELSE @]

\* del under the write lock: the index again, the frame, delete, onRemove,
\* the tombstone, Unlock
DeleteRemoves(t) ==
    /\ At(t, "del.remove")
    /\ DeleteReturns2(t, delAt(conc.shard, conc.cfg, Sum64(threads[t].key),
                               lockedIndex(conc.shard, Sum64(threads[t].key),
                                           threads[t].itemIndex)))

\* cleanUp: s.lock.Lock()
CleanLocks ==
    /\ At(Cleaner, "idle")
    /\ threads[Cleaner].calls < MaxCleans
    /\ canLock(lock)
    /\ lock' = Locked(lock, Cleaner)
    /\ threads' = [threads EXCEPT ![Cleaner].pc = "clean.run", ![Cleaner].op = "CleanUp",
                                  ![Cleaner].calls = @ + 1]
    /\ UNCHANGED <<conc, audit>>

\* cleanUp under the lock has returned r
CleanReturns(r) ==
    /\ conc' = [conc EXCEPT !.shard = IF r.err = "panic" THEN @ ELSE r.s,
                            !.crashed = (r.err = "panic")]
    /\ lock' = Unlocked(lock, Cleaner)
    /\ threads' = Rests(Cleaner)
    /\ audit' = Returned(Cleaner, r.err, <<>>, r.removed)

CleanRuns ==
    /\ At(Cleaner, "clean.run")
    /\ CleanReturns(cleanUp(conc.shard, conc.cfg, conc.now))

\* getWithInfo: s.lock.RLock(); the steps that follow take and release the
\* lock as those of get do
GetWithInfoRLocks(t, key) ==
    /\ MayCall(t)
    /\ canRLock(lock)
    /\ lock' = RLocked(lock, t)
    /\ threads' = [threads EXCEPT ![t].pc = "get.find", ![t].op = "GetWithInfo",
                                  ![t].key = key, ![t].calls = @ + 1]
    /\ UNCHANGED <<conc, audit>>

\* reset: s.lock.Lock()
ResetLocks(t) ==
    /\ MayCall(t)
    /\ canLock(lock)
    /\ lock' = Locked(lock, t)
    /\ threads' = [threads EXCEPT ![t].pc = "reset.run", ![t].op = "Reset", ![t].calls = @ + 1]
    /\ UNCHANGED <<conc, audit>>

\* reset: the new hashmap, the queue Reset, s.lock.Unlock()
ResetRuns(t) ==
    /\ At(t, "reset.run")
    /\ conc' = [conc EXCEPT !.shard = reset(@)]
    /\ lock' = Unlocked(lock, t)
    /\ threads' = Rests(t)
    /\ audit' = [Returned(t, "nil", <<>>, <<>>) EXCEPT !.deletedNil = {}]

\* len and capacity: s.lock.RLock()
SizeRLocks(t, op) ==
    /\ MayCall(t)
    /\ canRLock(lock)
    /\ lock' = RLocked(lock, t)
    /\ threads' = [threads EXCEPT ![t].pc = "size.read", ![t].op = op, ![t].calls = @ + 1]
    /\ UNCHANGED <<conc, audit>>

\* len: res := len(s.hashmap); capacity: res := s.entries.Capacity(); then
\* s.lock.RUnlock() and return res
SizeReads(t) ==
    /\ At(t, "size.read")
    /\ lock' = RUnlocked(lock, t)
    /\ threads' = Rests(t)
    /\ audit' = Returned(t, "nil",
                         IF threads[t].op = "Len" THEN <<len(conc.shard)>>
                         ELSE <<capacity(conc.shard)>>, <<>>)
    /\ UNCHANGED conc

\* the steps of a call of thread t after its first
Continues(t) ==
    \/ GetFinds(t) \/ GetCompares(t) \/ GetReads(t) \/ GetHits(t)
    \/ HitLocks(t) \/ HitCounts(t)
    \/ SetWrites(t) \/ AppendWrites(t)
    \/ DeleteChecks(t) \/ DeleteLocks(t) \/ DeleteRemoves(t)
    \/ ResetRuns(t) \/ SizeReads(t)

\* the steps of Continues(t) that wait for the lock, release it, or run
\* outside the body of a write
Proceeds(t) ==
    \/ GetFinds(t) \/ GetCompares(t) \/ GetReads(t) \/ GetHits(t)
    \/ HitLocks(t) \/ HitCounts(t)
    \/ DeleteChecks(t) \/ DeleteLocks(t)
    \/ ResetRuns(t) \/ SizeReads(t)

\* where a thread runs the body of set, append, del or cleanUp under the
\* write lock
UnderLockPcs == {"write", "del.remove", "clean.run"}

\* the calls on a full shard: every operation of the shard that locks
LocksKeys == {KeyA}
LocksInit ==
    \E c \in ConcConfigs :
        ConcStarts(set(set(EmptyShard, c, 0, KeyA, Sum64(KeyA), ShortValue).s,
                       c, 0, KeyC, Sum64(KeyC), ShortValue).s, c)

(***************************************************************************)
(* atomicLimiter (ratelimit): Take and its compare-and-swap loop           *)
(***************************************************************************)
\* the goroutines that call Take, and the calls each may make
NumTakers == 2
MaxTakes == 2
\* the last instant of the limiter's clock; 0 stands for the zero time.Time
MaxLimTime == 3

\* state{last: time.Time{}, sleepFor: 0}
initialState == [last |-> 0, sleepFor |-> 0]

\* the address of newState in call n of goroutine g: one variable for all
\* the iterations of that call
newStateOf(g, n) == (g - 1) * MaxTakes + n

\* oldState.last.IsZero()
IsZero(time) == time = 0

\* newAtomicBased: the state pointer holds the address of initialState
newAtomicBased ==
    [state |-> [ptr |-> 0, val |-> initialState], clock |-> 1]

\* a goroutine between calls of Take; ret is what its last call returned
NotTaking(n, ret) ==
    [pc |-> "idle", calls |-> n, now |-> 0, previousStatePointer |-> 0,
     newState |-> initialState, taken |-> FALSE, ret |-> ret]

LimInit ==
    /\ limiter = newAtomicBased
    /\ takers = [g \in 1..NumTakers |-> NotTaking(0, 0)]

LimIdle == LimInit

\* Take is called: var newState state; taken bool
TakeCalls(g) ==
    /\ takers[g].pc = "idle"
    /\ takers[g].calls < MaxTakes
    /\ takers' = [takers EXCEPT ![g] = [NotTaking(@.calls + 1, @.ret) EXCEPT !.pc = "loop"]]
    /\ UNCHANGED limiter

\* for !taken { ... }; return newState.last
TakeLoops(g) ==
    /\ takers[g].pc = "loop"
    /\ takers' = [takers EXCEPT ![g] =
                      IF @.taken THEN NotTaking(@.calls, @.newState.last)
                      ELSE [@ EXCEPT !.pc = "now"]]
    /\ UNCHANGED limiter

\* now := t.clock.Now()
TakeReadsClock(g) ==
    /\ takers[g].pc = "now"
    /\ takers' = [takers EXCEPT ![g].now = limiter.clock, ![g].pc = "load"]
    /\ UNCHANGED limiter

\* the rest of an iteration once oldState is loaded: newState is built, and
\* only a zero oldState.last leads to the compare-and-swap
takeBranch(oldState) == IF IsZero(oldState.last) THEN "cas" ELSE "loop"

\* previousStatePointer := atomic.LoadPointer(&t.state); newState = state{...}
TakeLoads(g) ==
    /\ takers[g].pc = "load"
    /\ takers' = [takers EXCEPT
                      ![g].previousStatePointer = limiter.state.ptr,
                      ![g].newState = [last |-> takers[g].now,
                                       sleepFor |-> limiter.state.val.sleepFor],
                      ![g].pc = takeBranch(limiter.state.val)]
    /\ UNCHANGED limiter

\* taken = atomic.CompareAndSwapPointer(&t.state, previousStatePointer,
\* unsafe.Pointer(&newState)); continue
TakeSwaps(g) ==
    /\ takers[g].pc = "cas"
    /\ IF limiter.state.ptr = takers[g].previousStatePointer
       THEN /\ limiter' = [limiter EXCEPT
                              !.state = [ptr |-> newStateOf(g, takers[g].calls),
                                         val |-> takers[g].newState]]
            /\ takers' = [takers EXCEPT ![g].taken = TRUE, ![g].pc = "loop"]
       ELSE /\ takers' = [takers EXCEPT ![g].taken = FALSE, ![g].pc = "loop"]
            /\ UNCHANGED limiter

\* the steps of a call of Take by goroutine g
TakeSteps(g) == TakeLoops(g) \/ TakeReadsClock(g) \/ TakeLoads(g) \/ TakeSwaps(g)

\* the clock of the limiter advances
LimTick ==
    /\ limiter.clock < MaxLimTime
    /\ limiter' = [limiter EXCEPT !.clock = @ + 1]
    /\ UNCHANGED takers

(***************************************************************************)
(* Specifications                                                          *)
(***************************************************************************)
ProcIdle == OrIdle /\ GroupIdle /\ ConcIdle /\ LimIdle

\* the state of the cache, the queue and the codec
dataVars == <<codecVars, queueVars, cacheVars, frontVars>>
\* what the steps of Or leave alone, and what the steps of a Group do
besideOr == <<dataVars, groupVars, concVars, limVars>>
besideGroup == <<dataVars, orVars, concVars, limVars>>
besideConc == <<dataVars, orVars, groupVars, limVars>>
besideLim == <<dataVars, orVars, groupVars, concVars>>

CodecIdle == cdc = [timestamp |-> 0, hash |-> 0, key |-> <<>>, entry |-> <<>>,
                    frame |-> <<>>, stage |-> "idle"]

QueueIdle == QueueInit

CacheIdle ==
    CacheStarts([lifeWindow |-> LifeWindow, cleanEnabled |-> FALSE, statsEnabled |-> FALSE],
                initNewShard(InitialShardBytes, MaxShardBytes), 0)

DataIdle == CodecIdle /\ QueueIdle /\ CacheIdle /\ FrontIdle

Init == CacheInit /\ CodecIdle /\ QueueIdle /\ FrontIdle /\ ProcIdle

Next ==
    \/ \E k \in Keys : Get(k) /\ UNCHANGED <<procVars, codecVars, queueVars, frontVars>>
    \/ \E k \in Keys : GetWithInfo(k) /\ UNCHANGED <<procVars, codecVars, queueVars, frontVars>>
    \/ \E k \in Keys, v \in Values : Set(k, v) /\ UNCHANGED <<procVars, codecVars, queueVars, frontVars>>
    \/ \E k \in Keys, v \in Values : CacheAppend(k, v) /\ UNCHANGED <<procVars, codecVars, queueVars, frontVars>>
    \/ \E k \in Keys : Delete(k) /\ UNCHANGED <<procVars, codecVars, queueVars, frontVars>>
    \/ Reset /\ UNCHANGED <<procVars, codecVars, queueVars, frontVars>>
    \/ CleanUp /\ UNCHANGED <<procVars, codecVars, queueVars, frontVars>>
    \/ Tick /\ UNCHANGED <<procVars, codecVars, queueVars, frontVars>>

Spec == Init /\ [][Next]_vars

SpecEvictInit == EvictInit /\ CodecIdle /\ QueueIdle /\ FrontIdle /\ ProcIdle
SpecEvictNext ==
    \/ \E k \in EvictKeys : Set(k, ShortValue) /\ UNCHANGED <<procVars, codecVars, queueVars, frontVars>>
    \/ Tick /\ UNCHANGED <<procVars, codecVars, queueVars, frontVars>>
SpecEvict == SpecEvictInit /\ [][SpecEvictNext]_vars

SpecTightInit == TightInit /\ CodecIdle /\ QueueIdle /\ FrontIdle /\ ProcIdle
SpecTightNext ==
    \/ \E k \in TightKeys : Get(k) /\ UNCHANGED <<procVars, codecVars, queueVars, frontVars>>
    \/ \E k \in TightKeys, v \in TightValues : Set(k, v) /\ UNCHANGED <<procVars, codecVars, queueVars, frontVars>>
    \/ \E k \in TightKeys, v \in TightValues :
          CacheAppend(k, v) /\ UNCHANGED <<procVars, codecVars, queueVars, frontVars>>
    \/ \E k \in TightKeys : Delete(k) /\ UNCHANGED <<procVars, codecVars, queueVars, frontVars>>
SpecTight == SpecTightInit /\ [][SpecTightNext]_vars

SpecExpireInit == ExpireInit /\ CodecIdle /\ QueueIdle /\ FrontIdle /\ ProcIdle
SpecExpireNext ==
    \/ \E k \in ExpireKeys, v \in ExpireValues : Set(k, v) /\ UNCHANGED <<procVars, codecVars, queueVars, frontVars>>
    \/ \E k \in ExpireKeys, v \in ExpireValues :
          CacheAppend(k, v) /\ UNCHANGED <<procVars, codecVars, queueVars, frontVars>>
    \/ CleanUp /\ UNCHANGED <<procVars, codecVars, queueVars, frontVars>>
    \/ Tick /\ UNCHANGED <<procVars, codecVars, queueVars, frontVars>>
SpecExpire == SpecExpireInit /\ [][SpecExpireNext]_vars

SpecZeroInit == ZeroInit /\ CodecIdle /\ QueueIdle /\ FrontIdle /\ ProcIdle
SpecZeroNext ==
    \/ \E k \in ZeroKeys : Get(k) /\ UNCHANGED <<procVars, codecVars, queueVars, frontVars>>
    \/ \E k \in ZeroKeys : Set(k, ShortValue) /\ UNCHANGED <<procVars, codecVars, queueVars, frontVars>>
    \/ CleanUp /\ UNCHANGED <<procVars, codecVars, queueVars, frontVars>>
    \/ Tick /\ UNCHANGED <<procVars, codecVars, queueVars, frontVars>>
SpecZero == SpecZeroInit /\ [][SpecZeroNext]_vars

SpecSweepInit == SweepInit /\ CodecIdle /\ QueueIdle /\ FrontIdle /\ ProcIdle
SpecSweepNext ==
    \/ \E k \in SweepKeys : Set(k, ShortValue) /\ UNCHANGED <<procVars, codecVars, queueVars, frontVars>>
    \/ CleanUp /\ UNCHANGED <<procVars, codecVars, queueVars, frontVars>>
    \/ Tick /\ UNCHANGED <<procVars, codecVars, queueVars, frontVars>>
SpecSweep == SpecSweepInit /\ [][SpecSweepNext]_vars

SpecCopyInit == CopyInit /\ CodecIdle /\ QueueIdle /\ FrontIdle /\ ProcIdle
SpecCopyNext ==
    \/ \E k \in CopyKeys : Get(k) /\ UNCHANGED <<procVars, codecVars, queueVars, frontVars>>
    \/ \E k \in CopyKeys : GetWithInfo(k) /\ UNCHANGED <<procVars, codecVars, queueVars, frontVars>>
    \/ \E k \in CopyKeys, v \in CopyValues : Set(k, v) /\ UNCHANGED <<procVars, codecVars, queueVars, frontVars>>
    \/ \E k \in CopyKeys, v \in CopyValues :
          CacheAppend(k, v) /\ UNCHANGED <<procVars, codecVars, queueVars, frontVars>>
    \/ \E k \in CopyKeys : Delete(k) /\ UNCHANGED <<procVars, codecVars, queueVars, frontVars>>
SpecCopy == SpecCopyInit /\ [][SpecCopyNext]_vars

SpecForeverInit == ForeverInit /\ CodecIdle /\ QueueIdle /\ FrontIdle /\ ProcIdle
SpecForeverNext ==
    \/ \E k \in ForeverKeys : Get(k) /\ UNCHANGED <<procVars, codecVars, queueVars, frontVars>>
    \/ \E k \in ForeverKeys, v \in ForeverValues :
          Set(k, v) /\ UNCHANGED <<procVars, codecVars, queueVars, frontVars>>
    \/ \E k \in ForeverKeys, v \in ForeverValues :
          CacheAppend(k, v) /\ UNCHANGED <<procVars, codecVars, queueVars, frontVars>>
    \/ \E k \in ForeverKeys : Delete(k) /\ UNCHANGED <<procVars, codecVars, queueVars, frontVars>>
    \/ Tick /\ UNCHANGED <<procVars, codecVars, queueVars, frontVars>>
SpecForever == SpecForeverInit /\ [][SpecForeverNext]_vars

SpecCodecInit == CodecInit /\ QueueIdle /\ CacheIdle /\ FrontIdle /\ ProcIdle
SpecCodecNext == CodecWrap \/ CodecAppend \/ CodecResetHash
SpecCodec == SpecCodecInit /\ [][SpecCodecNext]_vars

SpecQueueInit == QueueInit /\ CodecIdle /\ CacheIdle /\ FrontIdle /\ ProcIdle
SpecQueueNext == QPush \/ QPop \/ QReset
SpecQueue == SpecQueueInit /\ [][SpecQueueNext]_vars

SpecGrowInit == GrowInit /\ CodecIdle /\ CacheIdle /\ FrontIdle /\ ProcIdle
SpecGrow == SpecGrowInit /\ [][SpecQueueNext]_vars

SpecFrontInit == FrontInit /\ CodecIdle /\ QueueIdle /\ CacheIdle /\ ProcIdle
SpecFrontNext ==
    \/ New /\ UNCHANGED <<procVars, codecVars, queueVars, cacheVars>>
    \/ \E k \in FrontKeys : BigCacheGet(k) /\ UNCHANGED <<procVars, codecVars, queueVars, cacheVars>>
    \/ \E k \in FrontKeys :
          BigCacheGetWithInfo(k) /\ UNCHANGED <<procVars, codecVars, queueVars, cacheVars>>
    \/ \E k \in FrontKeys :
          BigCacheSet(k, ShortValue) /\ UNCHANGED <<procVars, codecVars, queueVars, cacheVars>>
    \/ \E k \in FrontKeys :
          BigCacheAppend(k, ShortValue) /\ UNCHANGED <<procVars, codecVars, queueVars, cacheVars>>
    \/ \E k \in FrontKeys : BigCacheDelete(k) /\ UNCHANGED <<procVars, codecVars, queueVars, cacheVars>>
    \/ ClockAdvances /\ UNCHANGED <<procVars, codecVars, queueVars, cacheVars>>
    \/ Close /\ UNCHANGED <<procVars, codecVars, queueVars, cacheVars>>
    \/ CtxDone /\ UNCHANGED <<procVars, codecVars, queueVars, cacheVars>>
    \/ TaskStarts /\ UNCHANGED <<procVars, codecVars, queueVars, cacheVars>>
    \/ TickerFires /\ UNCHANGED <<procVars, codecVars, queueVars, cacheVars>>
    \/ TaskCleans /\ UNCHANGED <<procVars, codecVars, queueVars, cacheVars>>
    \/ TaskSelectsTick /\ UNCHANGED <<procVars, codecVars, queueVars, cacheVars>>
    \/ TaskSelectsReturn /\ UNCHANGED <<procVars, codecVars, queueVars, cacheVars>>
    \/ TaskExits /\ UNCHANGED <<procVars, codecVars, queueVars, cacheVars>>
SpecFront == SpecFrontInit /\ [][SpecFrontNext]_vars

SpecOrInit == OrInit /\ DataIdle /\ GroupIdle /\ ConcIdle /\ LimIdle
SpecOrNext ==
    \/ \E g \in 1..MaxOrInputs : GoEvaluates(g) /\ UNCHANGED besideOr
    \/ \E g \in 1..MaxOrInputs : GoSelects(g) /\ UNCHANGED besideOr
    \/ \E g \in 1..MaxOrInputs : GoCloses(g) /\ UNCHANGED besideOr
    \/ \E i \in 1..MaxOrInputs : InputCloses(i) /\ UNCHANGED besideOr
    \/ \E i \in 1..MaxOrInputs : InputOffers(i) /\ UNCHANGED besideOr
    \/ \E i \in 1..MaxOrInputs : InputTaken(i) /\ UNCHANGED besideOr
SpecOr == SpecOrInit /\ [][SpecOrNext]_vars
\* the Go scheduler runs every goroutine that can take a step
FairSpecOr ==
    SpecOr /\ \A g \in 1..MaxOrInputs : WF_vars(GoSteps(g) /\ UNCHANGED besideOr)

SpecGroupInit == GroupInit /\ DataIdle /\ OrIdle /\ ConcIdle /\ LimIdle
SpecGroupNext ==
    \/ RunStarts /\ UNCHANGED besideGroup
    \/ \E a \in 1..MaxActors : \E e \in ErrorsOf(a) : ExecuteReturns(a, e) /\ UNCHANGED besideGroup
    \/ \E a \in 1..MaxActors : ResultSent(a) /\ UNCHANGED besideGroup
    \/ FirstReceived /\ UNCHANGED besideGroup
    \/ Interrupts /\ UNCHANGED besideGroup
    \/ Drains /\ UNCHANGED besideGroup
    \/ RunReturns /\ UNCHANGED besideGroup
SpecGroup == SpecGroupInit /\ [][SpecGroupNext]_vars

SpecConcInit == ConcInit /\ DataIdle /\ OrIdle /\ GroupIdle /\ LimIdle
SpecConcNext ==
    \/ \E t \in 1..NumCallers, k \in ConcKeys : GetRLocks(t, k) /\ UNCHANGED besideConc
    \/ \E t \in 1..NumCallers : GetFinds(t) /\ UNCHANGED besideConc
    \/ \E t \in 1..NumCallers : GetCompares(t) /\ UNCHANGED besideConc
    \/ \E t \in 1..NumCallers : GetReads(t) /\ UNCHANGED besideConc
    \/ \E t \in 1..NumCallers : GetHits(t) /\ UNCHANGED besideConc
    \/ \E t \in 1..NumCallers : HitLocks(t) /\ UNCHANGED besideConc
    \/ \E t \in 1..NumCallers : HitCounts(t) /\ UNCHANGED besideConc
    \/ \E t \in 1..NumCallers, k \in ConcKeys, v \in ConcValues :
          WriteLocks(t, "Set", k, v) /\ UNCHANGED besideConc
    \/ \E t \in 1..NumCallers, k \in ConcKeys, v \in ConcValues :
          WriteLocks(t, "Append", k, v) /\ UNCHANGED besideConc
    \/ \E t \in 1..NumCallers : SetWrites(t) /\ UNCHANGED besideConc
    \/ \E t \in 1..NumCallers : AppendWrites(t) /\ UNCHANGED besideConc
    \/ \E t \in 1..NumCallers, k \in ConcKeys : DeleteRLocks(t, k) /\ UNCHANGED besideConc
    \/ \E t \in 1..NumCallers : DeleteChecks(t) /\ UNCHANGED besideConc
    \/ \E t \in 1..NumCallers : DeleteLocks(t) /\ UNCHANGED besideConc
    \/ \E t \in 1..NumCallers : DeleteRemoves(t) /\ UNCHANGED besideConc
    \/ CleanLocks /\ UNCHANGED besideConc
    \/ CleanRuns /\ UNCHANGED besideConc
SpecConc == SpecConcInit /\ [][SpecConcNext]_vars

SpecLocksInit == LocksInit /\ DataIdle /\ OrIdle /\ GroupIdle /\ LimIdle
SpecLocksNext ==
    \/ \E t \in 1..NumCallers, k \in LocksKeys : GetRLocks(t, k) /\ UNCHANGED besideConc
    \/ \E t \in 1..NumCallers, k \in LocksKeys : GetWithInfoRLocks(t, k) /\ UNCHANGED besideConc
    \/ \E t \in 1..NumCallers, k \in LocksKeys :
          WriteLocks(t, "Set", k, ShortValue) /\ UNCHANGED besideConc
    \/ \E t \in 1..NumCallers, k \in LocksKeys :
          WriteLocks(t, "Append", k, ShortValue) /\ UNCHANGED besideConc
    \/ \E t \in 1..NumCallers, k \in LocksKeys : DeleteRLocks(t, k) /\ UNCHANGED besideConc
    \/ \E t \in 1..NumCallers : ResetLocks(t) /\ UNCHANGED besideConc
    \/ \E t \in 1..NumCallers : SizeRLocks(t, "Len") /\ UNCHANGED besideConc
    \/ \E t \in 1..NumCallers : SizeRLocks(t, "Capacity") /\ UNCHANGED besideConc
    \/ \E t \in 1..NumCallers : Continues(t) /\ UNCHANGED besideConc
    \/ CleanLocks /\ UNCHANGED besideConc
    \/ CleanRuns /\ UNCHANGED besideConc
SpecLocks == SpecLocksInit /\ [][SpecLocksNext]_vars
\* the Go scheduler runs every goroutine that can take a step, and a lock
\* that stays free is granted to a goroutine that waits for it. The body
\* of set, append, del and cleanUp under the write lock waits for nothing,
\* so that its fairness is that no thread stays in it for ever.
FairSpecLocks ==
    /\ SpecLocks
    /\ \A t \in 1..NumCallers : WF_vars(Proceeds(t) /\ UNCHANGED besideConc)
    /\ \A u \in 1..Cleaner : []<>(threads[u].pc \notin UnderLockPcs)

SpecTakeInit == LimInit /\ DataIdle /\ OrIdle /\ GroupIdle /\ ConcIdle
SpecTakeNext ==
    \/ \E g \in 1..NumTakers : TakeCalls(g) /\ UNCHANGED besideLim
    \/ \E g \in 1..NumTakers : TakeSteps(g) /\ UNCHANGED besideLim
    \/ LimTick /\ UNCHANGED besideLim
SpecTake == SpecTakeInit /\ [][SpecTakeNext]_vars
\* the Go scheduler runs every goroutine that can take a step
FairSpecTake ==
    SpecTake /\ \A g \in 1..NumTakers : WF_vars(TakeSteps(g) /\ UNCHANGED besideLim)

SpecConcTightInit == ConcTightInit /\ DataIdle /\ OrIdle /\ GroupIdle /\ LimIdle
SpecConcTight == SpecConcTightInit /\ [][SpecConcNext]_vars

SpecCallbackInit == CallbackInit /\ CodecIdle /\ QueueIdle /\ CacheIdle /\ ProcIdle
SpecCallback == SpecCallbackInit /\ [][SpecFrontNext]_vars

(***************************************************************************)
(* Properties of the byte queue                                            *)
(***************************************************************************)
\* C9: FIFO order.  While the arena has never grown, a Pop of a queue that
\* holds frames succeeds and returns, byte for byte, the oldest frame pushed
\* and not yet popped, read at the offset its Push returned; a Pop of a queue
\* that holds none reports the empty queue.
FifoOrder ==
    (qlast.op = "Pop" /\ ~grown) =>
        IF qlast.oldest.off = 0
        THEN qlast.err = "errEmptyQueue"
        ELSE /\ qlast.err = "nil"
             /\ qlast.index = qlast.oldest.off
             /\ qlast.data = qlast.oldest.data

\* a Pop returned a frame while the tail was wrapped behind the head
FifoOrderWitness ==
    /\ qlast.op = "Pop" /\ ~grown /\ qlast.err = "nil"
    /\ queue.tail < queue.head
    /\ Len(pushed) >= 2

\* C10: wraparound keeps the frames.  In every state, Get(offset) of every
\* frame pushed and not yet popped returns the bytes that were pushed.
LiveFramesIntact ==
    \A i \in 1..Len(pushed) :
        /\ QueueGet(queue, pushed[i].off).err = "nil"
        /\ QueueGet(queue, pushed[i].off).data = pushed[i].data

\* a Push has just wrapped the tail to the left margin, in front of frames
\* that are still queued
LiveFramesIntactWitness ==
    /\ qlast.op = "Push" /\ qlast.err = "nil" /\ ~grown
    /\ qlast.index = leftMarginIndex
    /\ queue.head > leftMarginIndex
    /\ Len(pushed) >= 3

\* the frames n Pops in a row return, in order, starting with the result r
\* of the first
RECURSIVE DrainedFrom(_, _)
DrainedFrom(r, n) ==
    IF n = 0 \/ r.err # "nil" THEN <<>>
    ELSE <<r.data>> \o DrainedFrom(Pop(r.q), n - 1)

\* what repeated Pop returns until count Pops are made or one fails
Drained(q) == DrainedFrom(Pop(q), q.count)

\* the frames the caller pushed that are still queued, oldest first
StillQueued == [i \in 1..Len(pushed) |-> pushed[i].data]

\* C26: region invariant.  After any sequence of Push, Pop and Reset, with
\* or without growth of a wrapped arena, the queue counts exactly the
\* frames pushed and not yet popped, and repeated Pop returns them in the
\* order they were pushed.
RegionInvariant ==
    /\ queue.count = Len(pushed)
    /\ Drained(queue) = StillQueued

\* the arena has grown while the tail lay behind the head, and frames are
\* queued
RegionInvariantWitness ==
    /\ qlast.op = "Push" /\ qlast.err = "nil" /\ qlast.grew
    /\ qlast.shape = "gap"
    /\ Len(pushed) >= 2

Max(a, b) == IF a > b THEN a ELSE b

\* the capacity after growth for a frame of minExtra bytes: the larger of
\* twice the capacity and the capacity plus minExtra, and no more than a
\* limit that is set
GrowthSize(cap, minExtra, maxCap) ==
    IF maxCap > 0
    THEN Min(Max(cap * 2, cap + minExtra), maxCap)
    ELSE Max(cap * 2, cap + minExtra)

\* C27: growth size.  A Push that grows the arena for a frame needing
\* minExtra bytes leaves the capacity at max(capacity*2, capacity+minExtra),
\* or at maxCapacity when that is set and smaller; with a limit set the
\* capacity never exceeds it.
GrowthAmount ==
    [][/\ (qlast'.op = "Push" /\ qlast'.grew) =>
              queue'.capacity = GrowthSize(queue.capacity,
                                           getNeededSize(Len(qlast'.data)),
                                           queue.maxCapacity)
       /\ (queue'.maxCapacity > 0) => queue'.capacity <= queue'.maxCapacity]_vars

\* a queue of 4 bytes has grown for a frame of 11
GrowthAmountWitness ==
    /\ qlast.op = "Push" /\ qlast.err = "nil" /\ qlast.grew
    /\ Len(qlast.data) = QMidLen
    /\ Len(pushed) = 1
    /\ queue.capacity > GrowCapacity

\* room bytes take a frame of need bytes: up to the end of the arena when
\* they are enough; up to the head when they are exactly enough or leave
\* room for the smallest header
TakesFrame(room, need, upToHead) ==
    IF upToHead THEN room = need \/ room >= need + minimumHeaderSize
    ELSE room >= need

\* the frame fits after the tail
FitsAfterTail(q, need) ==
    /\ ~q.full
    /\ IF q.tail >= q.head THEN TakesFrame(q.capacity - q.tail, need, FALSE)
       ELSE TakesFrame(q.head - q.tail, need, TRUE)

\* the frame fits between the left margin and the head
FitsBeforeHead(q, need) ==
    /\ ~q.full
    /\ IF q.tail >= q.head THEN TakesFrame(q.head - leftMarginIndex, need, TRUE)
       ELSE TakesFrame(q.head - q.tail, need, TRUE)

\* Push of entry on before gave after, the offset index and the error err
PushOutcomeOn(before, after, entry, need, index, err) ==
    /\ (err = "errFullQueue") <=>
          /\ ~FitsAfterTail(before, need)
          /\ ~FitsBeforeHead(before, need)
          /\ before.maxCapacity > 0
          /\ before.capacity + need >= before.maxCapacity
    /\ (err = "errFullQueue") => after = before
    /\ (err # "errFullQueue") =>
          /\ err = "nil"
          /\ index >= 1
          /\ QueueGet(after, index).err = "nil"
          /\ QueueGet(after, index).data = entry

\* C28: QueueFull.  Push returns QueueFull exactly when the frame fits
\* neither after the tail nor before the head and maxCapacity > 0 with
\* capacity + needed >= maxCapacity, and then head, tail, right margin,
\* count, full flag, capacity and arena are as they were; in every other
\* case it stores the frame and returns an offset >= 1.
PushOutcome ==
    [][(qlast'.op = "Push") =>
          PushOutcomeOn(queue, queue', qlast'.data, getNeededSize(Len(qlast'.data)),
                        qlast'.index, qlast'.err)]_vars

\* a Push was refused on an arena at its limit that holds frames
PushOutcomeWitness ==
    /\ qlast.op = "Push" /\ qlast.err = "errFullQueue"
    /\ queue.capacity = queue.maxCapacity
    /\ queue.count >= 2

\* C29: empty and full.  In every state full holds exactly when frames are
\* queued and head = tail; head = tail without full means no frame is
\* queued; and a tail wrapped behind the head leaves a gap of at least
\* minimumHeaderSize bytes.
EmptyFullDisambiguation ==
    /\ queue.full <=> (queue.count > 0 /\ queue.head = queue.tail)
    /\ (queue.head = queue.tail /\ ~queue.full) => queue.count = 0
    /\ (queue.tail < queue.head) => queue.head - queue.tail >= minimumHeaderSize

\* the tail has wrapped and met the head: the queue is full
EmptyFullDisambiguationWitness ==
    /\ qlast.op = "Push" /\ qlast.err = "nil"
    /\ queue.full
    /\ queue.head = queue.tail /\ queue.head > leftMarginIndex
    /\ queue.count >= 2

\* C11: growth keeps the frames.  A Push that grows the arena, whether the
\* frames lay contiguous, wrapped with a gap or wrapped and full, leaves
\* every frame pushed before and not yet popped readable, unchanged, by Get
\* at the offset its own Push returned, and stores its own frame whole at
\* the offset it returns.
GrowthKeepsFrames ==
    [][(qlast'.op = "Push" /\ qlast'.grew) =>
          /\ qlast'.err = "nil"
          /\ \A i \in 1..Len(pushed) :
                /\ QueueGet(queue', pushed[i].off).err = "nil"
                /\ QueueGet(queue', pushed[i].off).data = pushed[i].data
          /\ QueueGet(queue', qlast'.index).err = "nil"
          /\ QueueGet(queue', qlast'.index).data = qlast'.data]_vars

\* a Push has just grown an arena whose tail had wrapped behind the head
\* with room left between them, and frames pushed before it are still queued
GrowthKeepsFramesWitness ==
    /\ qlast.op = "Push" /\ qlast.grew /\ qlast.err = "nil"
    /\ qlast.shape = "gap"
    /\ Len(pushed) >= 3

(***************************************************************************)
(* Properties of the cache                                                 *)
(***************************************************************************)
\* BigCache.Get(key) on the shard s
Lookup(s, key) == get(s, cfg, key, Sum64(key))

\* BigCache.GetWithInfo(key) on the shard s
LookupWithInfo(s, key) == getWithInfo(s, cfg, now, key, Sum64(key))

\* the frame the hashmap holds for key, when it is a frame of key
OwnFrame(w, key) ==
    w.err = "nil" /\ FrameReadable(w.data) /\ readKeyFromEntry(w.data) = key

\* the frame that hashmap[hashedKey] named before a Set is a tombstone, and
\* hashmap[hashedKey] names it no more
Superseded(before, after, hashedKey, previousIndex, p) ==
    (previousIndex # 0 /\ QueueGet(before.entries, previousIndex).err = "nil") =>
        /\ MapGet(after.hashmap, hashedKey) # previousIndex
        /\ p.err = "nil"
        /\ readHashFromEntry(p.data) = 0

LastWriteWinsOn(before, after, key, entry, g, previousIndex) ==
    /\ g.err = "nil"
    /\ g.entry = entry
    /\ (after.entries.count = before.entries.count + 1) =>
          /\ len(after) = len(before) + (IF previousIndex = 0 THEN 1 ELSE 0)
          /\ Superseded(before, after, Sum64(key), previousIndex,
                        QueueGet(after.entries, previousIndex))

\* C1: last write wins and is counted once.  A Set that succeeds leaves
\* the key readable with the value just set; when the Set popped no frame
\* (the shard had room and nothing had expired), Len() grows by one if the
\* hash was new and stays as it was otherwise, and the frame the hash named
\* before is a tombstone (hash field zero) that the hash names no more.
LastWriteWins ==
    [][(last'.op = "Set" /\ last'.err = "nil") =>
          LastWriteWinsOn(shard, shard', last'.key, last'.entry,
                          Lookup(shard', last'.key),
                          MapGet(shard.hashmap, Sum64(last'.key)))]_vars

TombstoneOf(p, key, entry) ==
    /\ p.err = "nil"
    /\ readHashFromEntry(p.data) = 0
    /\ readKeyFromEntry(p.data) = key
    /\ readEntry(p.data) # entry

\* Set(k, v1) then Set(k, v2) with v1 # v2: both frames are queued, the
\* first as a tombstone, and Len() is 1
LastWriteWinsWitness ==
    /\ last.op = "Set" /\ last.err = "nil"
    /\ shard.entries.count = 2
    /\ len(shard) = 1
    /\ MapGet(shard.hashmap, Sum64(last.key)) # leftMarginIndex
    /\ TombstoneOf(QueueGet(shard.entries, leftMarginIndex), last.key, last.entry)
    /\ Lookup(shard, last.key).entry = last.entry

\* C2: Delete.  From a Delete of a key that succeeds until the next Set or
\* Append of that key, Get of the key reports ErrEntryNotFound; a Delete of
\* a key whose hash has no hashmap entry returns ErrEntryNotFound and
\* leaves the hashmap and the queue as they were.
DeleteContract ==
    [][/\ \A k \in deleted' : Lookup(shard', k).err = "ErrEntryNotFound"
       /\ (last'.op = "Delete" /\ Sum64(last'.key) \notin DOMAIN shard.hashmap) =>
              /\ last'.err = "ErrEntryNotFound"
              /\ shard'.hashmap = shard.hashmap
              /\ shard'.entries = shard.entries]_vars

\* a Delete removed the frame of its own key, which is still queued
DeleteContractWitness ==
    /\ last.op = "Delete" /\ last.err = "nil"
    /\ Len(last.removed) = 1
    /\ last.removed[1].key = last.key
    /\ last.removed[1].reason = Deleted
    /\ stored[last.key] = last.removed[1].entry
    /\ shard.entries.count >= 1
    /\ Lookup(shard, last.key).err = "ErrEntryNotFound"

\* a lookup of key that finds the frame w of another key
FindsOtherKey(w, key) ==
    w.err = "nil" /\ FrameReadable(w.data) /\ readKeyFromEntry(w.data) # key

\* C3: collision isolation.  Whatever Get or GetWithInfo return for a key
\* is the value last written under that key, never a value written under a
\* key of the same hash; a Get or GetWithInfo that finds a frame whose stored
\* key differs from the requested key returns ErrEntryNotFound and adds
\* exactly one to the collisions counter.
CollisionIsolation ==
    [][/\ \A k \in AllKeys :
              /\ Lookup(shard', k).err = "nil" => Lookup(shard', k).entry = stored'[k]
              /\ LookupWithInfo(shard', k).err = "nil" =>
                     LookupWithInfo(shard', k).entry = stored'[k]
       /\ (/\ last'.op \in {"Get", "GetWithInfo"}
           /\ FindsOtherKey(getWrappedEntry(shard, Sum64(last'.key)), last'.key)) =>
              /\ last'.err = "ErrEntryNotFound"
              /\ shard'.stats.Collisions = shard.stats.Collisions + 1]_vars

\* Get(a) has found the frame of b, which has a's hash and another value
CollisionIsolationWitness ==
    /\ last.op = "Get" /\ last.key = KeyA /\ last.err = "ErrEntryNotFound"
    /\ shard.stats.Collisions = 1
    /\ stored[KeyB] # NoValue
    /\ stored[KeyA] # NoValue
    /\ stored[KeyA] # stored[KeyB]
    /\ Lookup(shard, KeyB).err = "nil"
    /\ Lookup(shard, KeyB).entry = stored[KeyB]

ReportedExpired(g, gi) ==
    g.err = "ErrEntryNotFound" \/ (gi.err = "nil" /\ gi.status = Expired)

\* C4: expiry.  While no other write has followed a Set made at time t with
\* life window L: up to t + L - 1 Get returns the value set; from t + L + 1
\* on, Get reports ErrEntryNotFound or GetWithInfo reports status Expired.
ExpiryWindow ==
    fresh.valid =>
        /\ (now <= fresh.time + cfg.lifeWindow - 1) =>
              /\ Lookup(shard, fresh.key).err = "nil"
              /\ Lookup(shard, fresh.key).entry = fresh.entry
        /\ (now >= fresh.time + cfg.lifeWindow + 1) =>
              ReportedExpired(Lookup(shard, fresh.key), LookupWithInfo(shard, fresh.key))

\* the clean-up has removed the entry, L + 1 seconds or more after its Set
ExpiryWindowWitness ==
    /\ fresh.valid
    /\ now >= fresh.time + cfg.lifeWindow + 1
    /\ last.op = "CleanUp"
    /\ Len(last.removed) = 1
    /\ last.removed[1].key = fresh.key
    /\ last.removed[1].reason = Expired
    /\ Lookup(shard, fresh.key).err = "ErrEntryNotFound"

\* the entry of key that is still retrievable was not written before time t
SurvivorNotOlder(w, key, t) ==
    OwnFrame(w, key) => readTimestampFromEntry(w.data) >= t

\* C5: capacity eviction.  A Set that succeeds leaves its key retrievable
\* with the value set; the entries it evicted for space (callback reason
\* NoSpace) are the oldest: they were evicted oldest first, and no entry
\* that is still retrievable was written before one of them.
CapacityEviction ==
    (last.op = "Set" /\ last.err = "nil") =>
        /\ Lookup(shard, last.key).err = "nil"
        /\ Lookup(shard, last.key).entry = last.entry
        /\ \A i \in 1..Len(last.removed) :
              last.removed[i].reason = NoSpace =>
                  /\ \A j \in 1..(i - 1) :
                        last.removed[j].reason = NoSpace =>
                            last.removed[j].timestamp <= last.removed[i].timestamp
                  /\ \A k \in AllKeys \ {last.key} :
                        SurvivorNotOlder(getWrappedEntry(shard, Sum64(k)), k,
                                         last.removed[i].timestamp)

\* the frame of key and entry fits a shard whose arena is empty and as large
\* as it may get
FitsShard(key, entry, q) ==
    getNeededSize(headersSizeInBytes + Len(key) + Len(entry))
        <= q.maxCapacity - leftMarginIndex

TooLarge == "entry is bigger than max shard size"

\* C6: entry too large.  Set returns the error only for a frame that an
\* empty arena at its maximum capacity could not hold; the Set of a frame
\* that fits, made next after such a failure, succeeds and its key is
\* retrievable.
TooLargeOnlyWhenOversized ==
    [][/\ (last'.op = "Set" /\ last'.err = TooLarge) =>
              ~FitsShard(last'.key, last'.entry, shard.entries)
       /\ (/\ last.op = "Set" /\ last.err = TooLarge
           /\ last'.op = "Set"
           /\ FitsShard(last'.key, last'.entry, shard.entries)) =>
              /\ last'.err = "nil"
              /\ Lookup(shard', last'.key).err = "nil"
              /\ Lookup(shard', last'.key).entry = last'.entry]_vars

\* Append(key, entry) on a key that holds g.entry: w is the frame it leaves
AppendExtends(before, after, key, entry, g, w, removed) ==
    /\ OwnFrame(w, key)
    /\ readEntry(w.data) = g.entry \o entry
    /\ readHashFromEntry(w.data) = Sum64(key)
    /\ readTimestampFromEntry(w.data) = now
    /\ (removed = <<>>) => len(after) = len(before)

\* Append(key, entry) on a key that Get does not find: r is what Set(key,
\* entry) returns on the same shard
AppendAsSet(after, err, r) ==
    /\ err = r.err
    /\ after.hashmap = r.s.hashmap
    /\ after.entries = r.s.entries

AppendOn(before, after, key, entry, err, removed, g) ==
    IF g.err = "nil"
    THEN (err = "nil") =>
             AppendExtends(before, after, key, entry, g,
                           getWrappedEntry(after, Sum64(key)), removed)
    ELSE (g.err = "ErrEntryNotFound") =>
             AppendAsSet(after, err, set(before, cfg, now, key, Sum64(key), entry))

\* C7: Append.  On a key that holds v1, an Append of v2 that succeeds makes
\* Get return v1 followed by v2 from a frame with the same key and hash and
\* the current time as timestamp, and leaves Len() as it was; on a key that
\* Get does not find, Append returns what Set(k, v2) returns and leaves the
\* hashmap and the queue that Set(k, v2) leaves.
AppendContract ==
    [][(last'.op = "Append") =>
          AppendOn(shard, shard', last'.key, last'.entry, last'.err, last'.removed,
                   Lookup(shard, last'.key))]_vars

\* C12: Reset.  Right after Reset(), from whatever state, Len() is 0, Get
\* of every key reports ErrEntryNotFound, and Capacity() is the capacity of
\* a cache just built from the same configuration.
ResetContract ==
    (last.op = "Reset") =>
        /\ len(shard) = 0
        /\ \A k \in AllKeys : Lookup(shard, k).err = "ErrEntryNotFound"
        /\ capacity(shard) = capacity(initNewShard(InitialShardBytes, MaxShardBytes))

\* Reset has just emptied a shard whose arena had grown
ResetContractWitness ==
    /\ last.op = "Reset"
    /\ capacity(shard) > InitialShardBytes

\* the offsets of the frames in the queue q: those that Pop after Pop would
\* return, up to the empty queue
RECURSIVE QueuedOffsets(_)
RECURSIVE QueuedAfter(_, _)
QueuedAfter(q, r) == IF r.err # "nil" THEN {} ELSE {q.head} \cup QueuedOffsets(r.q)
QueuedOffsets(q) == QueuedAfter(q, Pop(q))

\* the hashmap value index of the hash h names a frame that is in the queue
\* and carries h in its hash field
NamesLiveFrame(s, h, index, p) ==
    /\ index \in QueuedOffsets(s.entries)
    /\ p.err = "nil"
    /\ Len(p.data) >= timestampSizeInBytes + hashSizeInBytes
    /\ readHashFromEntry(p.data) = h

\* C13: index consistency.  Between operations, every non-zero value of
\* the hashmap is the start offset of a frame that is in the queue (pushed
\* and not popped) and whose hash field is the hash it is stored under.
IndexConsistency ==
    \A h \in DOMAIN shard.hashmap :
        shard.hashmap[h] # 0 =>
            NamesLiveFrame(shard, h, shard.hashmap[h],
                           QueueGet(shard.entries, shard.hashmap[h]))

\* a failed Append has left the hashmap with an entry
IndexConsistencyWitness ==
    /\ last.op = "Append" /\ last.err = TooLarge
    /\ DOMAIN shard.hashmap # {}

NoExpiryWhenDisabled ==
    (cfg.lifeWindow = 0 /\ ~cfg.cleanEnabled) =>
        \A i \in 1..Len(last.removed) : last.removed[i].reason # Expired

\* a Set found the oldest entry one second old or older
NoExpiryWhenDisabledWitness ==
    /\ cfg.lifeWindow = 0 /\ ~cfg.cleanEnabled
    /\ last.op = "Set" /\ last.err = "nil"
    /\ Len(last.removed) > 0
    /\ last.removed[1].timestamp < last.time

\* the age in seconds at time t of the frame data
AgeOf(data, t) == t - readTimestampFromEntry(data)

\* GetWithInfo(key) at time t, returning call and taking the shard from
\* before to after, where w is the frame the hashmap held for the key
LazyExpiryOn(before, after, c, t, key, w, call) ==
    OwnFrame(w, key) =>
        /\ call.err = "nil"
        /\ call.result = readEntry(w.data)
        /\ (AgeOf(w.data, t) > c.lifeWindow) => call.status = Expired
        /\ (AgeOf(w.data, t) <= c.lifeWindow) => call.status # Expired
        /\ after.hashmap = before.hashmap
        /\ after.entries = before.entries
        /\ get(after, c, key, Sum64(key)).err = "nil"
        /\ get(after, c, key, Sum64(key)).entry = call.result

\* C19: GetWithInfo reads without evicting.  For a key whose entry is
\* present it returns the value and no error, with status Expired exactly
\* when the entry is older than the life window; the hashmap and the queue
\* are left as they were and a following Get still returns the value.
LazyExpiry ==
    [][(last'.op = "GetWithInfo") =>
          LazyExpiryOn(shard, shard', cfg, now, last'.key,
                       getWrappedEntry(shard, Sum64(last'.key)), last')]_vars

\* a GetWithInfo has returned the value of an entry past its life window
LazyExpiryWitness ==
    /\ last.op = "GetWithInfo"
    /\ last.err = "nil"
    /\ last.status = Expired
    /\ Lookup(shard, last.key).err = "nil"
    /\ Lookup(shard, last.key).entry = last.result

\* the callback log entry rm reports the frame p
ReportsFrame(p, rm) ==
    p.err = "nil" /\ FrameReadable(p.data) /\ Removal(p.data, rm.reason) = rm

\* the callback log entry rm reports an entry the hashmap of s named
ReportsLive(s, rm) ==
    \E h \in DOMAIN s.hashmap : ReportsFrame(QueueGet(s.entries, s.hashmap[h]), rm)

\* the call supersedes what the hashmap holds under h
Supersedes(call, h) == call.op \in {"Set", "Append"} /\ Sum64(call.key) = h

\* the callbacks of the call are for entries the hashmap named before it,
\* one each and with the reason of the call, and every entry the hashmap
\* has lost other than the one the call superseded has its callback
RemovalNotifiedOn(before, after, call) ==
    /\ \A i \in 1..Len(call.removed) :
          /\ ReportsLive(before, call.removed[i])
          /\ (call.removed[i].reason = Deleted) <=> (call.op = "Delete")
          /\ \A j \in 1..Len(call.removed) :
                (i # j) => call.removed[i] # call.removed[j]
    /\ \A h \in DOMAIN before.hashmap :
          (h \notin DOMAIN after.hashmap /\ ~Supersedes(call, h)) =>
              \E i \in 1..Len(call.removed) :
                  ReportsFrame(QueueGet(before.entries, before.hashmap[h]),
                               call.removed[i])

\* C20: removal notification.  The callback is invoked once for each entry
\* removed by Delete, by expiry or by eviction for space, with that reason,
\* and for nothing else: popping a tombstone invokes no callback and removes
\* no hashmap entry, and the entry a Set or Append supersedes gets none.
RemovalNotification ==
    [][(last'.op \in {"Get", "GetWithInfo", "Set", "Append", "Delete", "CleanUp"}
           /\ last'.err # "panic") =>
          RemovalNotifiedOn(shard, shard', last')]_vars

\* a Set has evicted an entry for space and the callback was invoked for it
RemovalNotificationWitness ==
    /\ last.op = "Set" /\ last.err = "nil"
    /\ Len(last.removed) > 0
    /\ last.removed[1].reason = NoSpace

\* the queue after k Pops
RECURSIVE PopN(_, _)
PopN(q, k) == IF k = 0 THEN q ELSE PopN(Pop(q).q, k - 1)

\* the frame p, read at time t under the life window lw, has expired
ExpiredAt(p, t, lw) ==
    /\ p.err = "nil"
    /\ t > readTimestampFromEntry(p.data)
    /\ t - readTimestampFromEntry(p.data) > lw

\* the k frames at the head of q have all expired at time t
HeadsExpired(q, k, t, lw) ==
    \A j \in 0..(k - 1) : ExpiredAt(Peek(PopN(q, j)), t, lw)

\* the entry g that Get returned before is young: the frame w it was read
\* from is no older than the life window
YoungEntry(g, w, t, lw) ==
    g.err = "nil" /\ ~ExpiredAt(w, t, lw)

\* cleanUp(t) took the shard from before to after
CleanUpOn(before, after, c, t) ==
    /\ \E k \in 0..before.entries.count :
          /\ after.entries = PopN(before.entries, k)
          /\ HeadsExpired(before.entries, k, t, c.lifeWindow)
    /\ \A key \in AllKeys :
          YoungEntry(get(before, c, key, Sum64(key)),
                     getWrappedEntry(before, Sum64(key)), t, c.lifeWindow) =>
              /\ get(after, c, key, Sum64(key)).err = "nil"
              /\ get(after, c, key, Sum64(key)).entry = get(before, c, key, Sum64(key)).entry
    /\ after.entries.count = 0 \/ ~ExpiredAt(Peek(after.entries), t, c.lifeWindow)

\* C30: cleanUp.  cleanUp(now) pops frames from the head of the queue only,
\* each of them expired (now > timestamp and now - timestamp > lifeWindow);
\* an entry no older than the life window is still returned by Get after
\* it; it ends, leaving the queue empty or with a head frame that has not
\* expired.
CleanUpRemovesExpiredOnly ==
    [][(last'.op = "CleanUp" /\ last'.err = "nil") =>
          CleanUpOn(shard, shard', cfg, now)]_vars

\* a cleanUp has removed an expired entry and has stopped at a younger one
CleanUpRemovesExpiredOnlyWitness ==
    /\ last.op = "CleanUp" /\ last.err = "nil"
    /\ Len(last.removed) >= 1
    /\ shard.entries.count >= 1

\* the frame the hashmap names for the hash h has expired at time t
IndexedExpired(s, lw, h, t) ==
    ExpiredAt(QueueGet(s.entries, MapGet(s.hashmap, h)), t, lw)

\* C31: clean-up completeness.  With a clock that never goes back, after
\* cleanUp(now) has returned the hashmap holds no entry whose frame has
\* expired (now - timestamp > lifeWindow), whatever Sets came before, also
\* those that grew a wrapped queue.
CleanUpComplete ==
    (last.op = "CleanUp" /\ last.err = "nil") =>
        \A h \in DOMAIN shard.hashmap : ~IndexedExpired(shard, cfg.lifeWindow, h, now)

\* a clean-up has returned on a queue that has grown, and has left an entry
\* in the hashmap
CleanUpCompleteWitness ==
    /\ last.op = "CleanUp" /\ last.err = "nil"
    /\ shard.entries.capacity > EvictInitialBytes
    /\ DOMAIN shard.hashmap # {}

\* the callbacks with reason Expired among those a call made
ExpiredRemovals(removed) == {i \in 1..Len(removed) : removed[i].reason = Expired}

\* the call got as far as its push loop
ReachedPush(l) ==
    /\ l.op \in {"Set", "Append"}
    /\ l.err \in {"nil", "entry is bigger than max shard size"}

\* the frame p at the head of the queue of s is live, and is not the frame
\* that the write of hashedKey supersedes
HeadStands(s, p, hashedKey) ==
    /\ p.err = "nil"
    /\ readHashFromEntry(p.data) # 0
    /\ MapGet(s.hashmap, hashedKey) # s.entries.head

\* the write of hashedKey at time t, which found the shard s with p at the
\* head of its queue and left the record l
PayAsYouGoOn(s, c, t, p, hashedKey, l) ==
    /\ Cardinality(ExpiredRemovals(l.removed)) <= 1
    /\ c.cleanEnabled => ExpiredRemovals(l.removed) = {}
    /\ ExpiredRemovals(l.removed) # {} =>
          /\ ExpiredRemovals(l.removed) = {1}
          /\ ExpiredAt(p, t, c.lifeWindow)
          /\ l.removed[1] = Removal(p.data, Expired)
    /\ (~c.cleanEnabled /\ ExpiredAt(p, t, c.lifeWindow) /\ HeadStands(s, p, hashedKey)) =>
          ExpiredRemovals(l.removed) = {1}

\* C32: pay-as-you-go expiry. With the periodic clean-up off, a Set or an
\* Append that reaches its push loop removes the frame at the head of the
\* queue with reason Expired, before any other removal, exactly when that
\* frame has expired, and removes no second frame with that reason; with the
\* periodic clean-up on, no Set and no Append removes with reason Expired.
PayAsYouGoExpiry ==
    [][ReachedPush(last') =>
          PayAsYouGoOn(shard, cfg, now, Peek(shard.entries), Sum64(last'.key), last')]_vars

\* a write has removed the expired head of the queue and stored its entry
PayAsYouGoExpiryWitness ==
    /\ ReachedPush(last) /\ last.err = "nil"
    /\ ~cfg.cleanEnabled
    /\ ExpiredRemovals(last.removed) = {1}


\* the loop for { Push(w) ... removeOldestEntry(NoSpace) ... } run on the
\* shard s: the Pushes it makes, whether the last one stored w, and the
\* frames queued when it ends
RECURSIVE loopEnds(_, _, _)
loopEnds(s, c, w) ==
    IF Push(s.entries, w).err = "nil"
    THEN [tries |-> 1, stored |-> TRUE, left |-> s.entries.count]
    ELSE IF removeOldestEntry(s, c, NoSpace).err # "nil"
    THEN [tries |-> 1, stored |-> FALSE, left |-> s.entries.count]
    ELSE [loopEnds(removeOldestEntry(s, c, NoSpace).s, c, w) EXCEPT !.tries = @ + 1]

\* the shard and the frame with which append enters the loop, once
\* getValidWrapEntry has returned v
appendLoopStart(c, t, key, hashedKey, entry, v) ==
    IF v.err = "ErrEntryNotFound"
    THEN [reached |-> TRUE, s |-> evictOldestIfExpired(v.s, c, t).s,
          w |-> wrapEntry(t, hashedKey, key, entry)]
    ELSE IF v.err # "nil" \/ tombstonePanics(v.s, hashedKey)
    THEN [reached |-> FALSE, s |-> v.s, w |-> <<>>]
    ELSE [reached |-> TRUE,
          s |-> evictOldestIfExpired(tombstonePrevious(v.s, hashedKey, FALSE), c, t).s,
          w |-> appendToWrappedEntry(t, v.data, entry)]

\* the shard and the frame with which the write op of key enters the loop
loopStart(s, c, t, op, key, hashedKey, entry) ==
    IF op = "Set"
    THEN [reached |-> ~tombstonePanics(s, hashedKey),
          s |-> evictOldestIfExpired(tombstonePrevious(s, hashedKey, TRUE), c, t).s,
          w |-> wrapEntry(t, hashedKey, key, entry)]
    ELSE appendLoopStart(c, t, key, hashedKey, entry, getValidWrapEntry(s, c, key, hashedKey))

\* the loop that started at st ends as e, leaving the shard after and the
\* error err
PushLoopOn(st, e, after, err) ==
    /\ e.tries <= st.s.entries.count + 1
    /\ st.s.entries.count - e.left = e.tries - 1
    /\ err = (IF e.stored THEN "nil" ELSE TooLarge)
    /\ after.entries.count = e.left + (IF e.stored THEN 1 ELSE 0)

\* thread t returns from a write
WriteEnds(t) == threads[t].pc = "write" /\ threads'[t].pc # "write"

\* C33: the push and evict loop of Set and Append ends. A Push that fails
\* is followed by the removal of one queued frame while one is left; after
\* at most count + 1 Pushes, count being the frames queued when the loop is
\* entered, the frame is stored or the call returns entry-too-large; and
\* in both cases the write lock is free when the call has returned.
PushLoopEnds ==
    [][\A t \in 1..NumCallers :
          WriteEnds(t) =>
              /\ lock'.writer = 0
              /\ threads'[t].pc = "idle"
              /\ loopStart(conc.shard, conc.cfg, conc.now, threads[t].op, threads[t].key,
                           Sum64(threads[t].key), threads[t].entry).reached =>
                    PushLoopOn(loopStart(conc.shard, conc.cfg, conc.now, threads[t].op,
                                         threads[t].key, Sum64(threads[t].key),
                                         threads[t].entry),
                               loopEnds(loopStart(conc.shard, conc.cfg, conc.now, threads[t].op,
                                                  threads[t].key, Sum64(threads[t].key),
                                                  threads[t].entry).s,
                                        conc.cfg,
                                        loopStart(conc.shard, conc.cfg, conc.now, threads[t].op,
                                                  threads[t].key, Sum64(threads[t].key),
                                                  threads[t].entry).w),
                               conc'.shard, audit'.last.err)]_vars

\* a write of a key stored before has emptied the queue, returned
\* entry-too-large and left the lock free
PushLoopEndsWitness ==
    /\ audit.last.at = "write" /\ audit.last.err = TooLarge
    /\ audit.written[audit.last.key] # {}
    /\ conc.shard.entries.count = 0
    /\ lock.writer = 0

\* the offsets of the queued frames of s that carry h in their hash field
CarriersOf(s, h) ==
    {o \in QueuedOffsets(s.entries) :
        /\ QueueGet(s.entries, o).err = "nil"
        /\ Len(QueueGet(s.entries, o).data) >= timestampSizeInBytes + hashSizeInBytes
        /\ readHashFromEntry(QueueGet(s.entries, o).data) = h}

\* the hashes the keys of the model have
KeyHashes == {Sum64(k) : k \in AllKeys}

\* at most one queued frame of s carries h, and the hashmap names it
OneCarrier(s, h) ==
    /\ Cardinality(CarriersOf(s, h)) <= 1
    /\ CarriersOf(s, h) # {} => MapGet(s.hashmap, h) \in CarriersOf(s, h)

\* the frame the hashmap of before names for h lies unchanged in the queue
\* of after
FrameStays(before, after, h) ==
    /\ MapGet(before.hashmap, h) \in CarriersOf(before, h)
    /\ MapGet(before.hashmap, h) \in CarriersOf(after, h)
    /\ QueueGet(after.entries, MapGet(before.hashmap, h)).data =
          QueueGet(before.entries, MapGet(before.hashmap, h)).data

\* the call recorded in l has removed a frame for want of room or for age
Evicts(l) ==
    /\ l.op \in {"Set", "Append", "CleanUp"}
    /\ \E i \in 1..Len(l.removed) : l.removed[i].reason \in {Expired, NoSpace}

\* C34: one live frame per hash. For each hash other than 0 at most one
\* queued frame carries it, and the hashmap then holds the offset of that
\* frame; and a call that evicts or expires frames leaves the hashmap entry
\* of every other hash whose frame stays in the queue as it was.
OneLiveFramePerHash ==
    /\ [](\A h \in KeyHashes \ {0} : OneCarrier(shard, h))
    /\ [][Evicts(last') =>
             \A h \in KeyHashes \ {0} :
                 (FrameStays(shard, shard', h) /\ (last'.op = "CleanUp" \/ h # Sum64(last'.key)))
                     => MapGet(shard'.hashmap, h) = MapGet(shard.hashmap, h)]_vars

\* a Set of a stored key has left the superseded frame in the queue with
\* its hash field cleared, and one frame that carries the hash
OneLiveFramePerHashWitness ==
    /\ last.op = "Set" /\ last.err = "nil"
    /\ shard.entries.count = 2
    /\ Cardinality(CarriersOf(shard, Sum64(last.key))) = 1
    /\ CarriersOf(shard, 0) # {}

\* every offset in the hashmap of s is the offset of a queued frame
NoDanglingIndex(s) ==
    \A h \in DOMAIN s.hashmap : s.hashmap[h] \in QueuedOffsets(s.entries)

\* C35: failed writes leave no dangling index. When Set or Append has
\* returned entry-too-large, every offset in the hashmap is the offset of a
\* frame still queued, the key written has no hashmap entry, and a Get of
\* that key returns ErrEntryNotFound.
FailedWriteDropsIndex ==
    (last.op \in {"Set", "Append"} /\ last.err = TooLarge) =>
        /\ NoDanglingIndex(shard)
        /\ MapGet(shard.hashmap, Sum64(last.key)) = 0
        /\ get(shard, cfg, last.key, Sum64(last.key)).err = "ErrEntryNotFound"

\* a Set of a stored key has returned entry-too-large and has left the key
\* without a hashmap entry
FailedWriteDropsIndexWitness ==
    /\ last.op = "Set" /\ last.err = TooLarge
    /\ stored[last.key] # NoValue
    /\ MapGet(shard.hashmap, Sum64(last.key)) = 0
    /\ shard.entries.count = 0

\* the frame that the hashmap of before names for key is queued, holds key,
\* and is no longer in the queue of after
FramePopped(before, after, c, key) ==
    /\ MapGet(before.hashmap, Sum64(key)) \in QueuedOffsets(before.entries)
    /\ get(before, c, key, Sum64(key)).err = "nil"
    /\ \/ MapGet(before.hashmap, Sum64(key)) \notin QueuedOffsets(after.entries)
       \/ QueueGet(after.entries, MapGet(before.hashmap, Sum64(key))).data #
             QueueGet(before.entries, MapGet(before.hashmap, Sum64(key))).data

\* the callback was made for key
CalledFor(removed, key) == \E i \in 1..Len(removed) : removed[i].key = key

\* the call l, not a write of key, popped the frame of key: the hashmap
\* entry of key is gone and the callback was made
PoppedLikeAny(before, after, c, key, l) ==
    (l.op \in {"Set", "CleanUp"} /\ l.key # key /\ FramePopped(before, after, c, key)) =>
        /\ MapGet(after.hashmap, Sum64(key)) = 0
        /\ CalledFor(l.removed, key)

\* C36: a key whose hash is 0. After a Set of the key has returned nil, Get
\* returns the value set; and when a later call pops the frame of the key
\* because it has expired or because room is needed, the hashmap entry of
\* the key is removed and the removal callback is made for it.
ZeroHashKey ==
    /\ []((last.op = "Set" /\ last.err = "nil" /\ last.key = KeyZ) =>
             /\ get(shard, cfg, KeyZ, Sum64(KeyZ)).err = "nil"
             /\ get(shard, cfg, KeyZ, Sum64(KeyZ)).entry = last.entry)
    /\ [][PoppedLikeAny(shard, shard', cfg, KeyZ, last')]_vars

\* the key of hash 0 has been set and read back
ZeroHashKeyWitness ==
    /\ last.op = "Get" /\ last.key = KeyZ /\ last.err = "nil"
    /\ last.result = ShortValue
    /\ Sum64(last.key) = 0

\* the keys other than key that have the hash of key
Colliding(key) == {k \in AllKeys \ {key} : Sum64(k) = Sum64(key)}

\* the frame at offset o of before lies at o in the queue of after, with
\* its timestamp, key and value
FrameKept(before, after, o) ==
    /\ o \in QueuedOffsets(before.entries)
    /\ o \in QueuedOffsets(after.entries)
    /\ readTimestampFromEntry(QueueGet(after.entries, o).data) =
          readTimestampFromEntry(QueueGet(before.entries, o).data)
    /\ readKeyFromEntry(QueueGet(after.entries, o).data) =
          readKeyFromEntry(QueueGet(before.entries, o).data)
    /\ readEntry(QueueGet(after.entries, o).data) = readEntry(QueueGet(before.entries, o).data)

\* the entry Get returns for key in before is returned in after as well,
\* as long as its frame is queued
StaysRetrievable(before, after, c, key) ==
    (/\ get(before, c, key, Sum64(key)).err = "nil"
     /\ FrameKept(before, after, MapGet(before.hashmap, Sum64(key)))) =>
        /\ get(after, c, key, Sum64(key)).err = "nil"
        /\ get(after, c, key, Sum64(key)).entry = get(before, c, key, Sum64(key)).entry

\* C37: key isolation for writes. A Delete or a Set of a key leaves every
\* entry stored under another key of the same hash retrievable by Get, with
\* its value, as long as the frame of that entry is queued.
WriteKeyIsolation ==
    [][last'.op \in {"Delete", "Set"} =>
          \A k \in Colliding(last'.key) : StaysRetrievable(shard, shard', cfg, k)]_vars

\* a Delete of a key has removed the entry of that key while a key of the
\* same hash was absent
WriteKeyIsolationWitness ==
    /\ last.op = "Delete" /\ last.err = "nil"
    /\ Len(last.removed) = 1 /\ last.removed[1].key = last.key
    /\ Colliding(last.key) # {}

\* no call is in progress on the shard
AllResting == \A t \in 1..Cleaner : threads[t].pc = "idle"

\* s.hashmapStats[hashedKey], the RequestCount that KeyMetadata reports
RequestCount(s, hashedKey) == MapGet(s.hashmapStats, hashedKey)

\* C38: per-key metadata follows the index. With statistics on, whenever
\* no call is in progress, hashmapStats has a counter only for hashes that
\* are in the hashmap, and the RequestCount of a key whose entry has been
\* removed is 0, also when a Get of the key ran while it was removed.
MetadataFollowsIndex ==
    (conc.cfg.statsEnabled /\ AllResting) =>
        /\ DOMAIN conc.shard.hashmapStats \subseteq DOMAIN conc.shard.hashmap
        /\ \A k \in ConcKeys :
              Sum64(k) \notin DOMAIN conc.shard.hashmap =>
                  RequestCount(conc.shard, Sum64(k)) = 0

\* a Delete has removed a key that a Get had counted, and the counter is gone
MetadataFollowsIndexWitness ==
    /\ conc.cfg.statsEnabled /\ AllResting
    /\ audit.last.op = "Delete" /\ audit.last.err = "nil"
    /\ conc.shard.stats.Hits > 0
    /\ conc.shard.hashmapStats = EmptyMap

\* thread t holds the lock of the shard, as writer or as reader
Holds(t) == lock.writer = t \/ t \in lock.readers

\* thread t is about to request the lock: between calls, or at the second
\* request of del or at the request of hit
Requests(t) == threads[t].pc \in {"idle", "del.lock", "hit.lock"}

\* C39: deadlock freedom. No thread holds the lock of the shard between
\* calls or when it requests the lock, and every call that has started,
\* the clean-up included, returns.
LockedCallsComplete ==
    /\ [](\A t \in 1..Cleaner : Requests(t) => ~Holds(t))
    /\ \A t \in 1..Cleaner : (threads[t].pc # "idle") ~> (threads[t].pc = "idle")

\* a Get has taken the write lock in hit, counted and returned, as the last
\* of the calls of the run, and the lock is free
LockedCallsCompleteWitness ==
    /\ AllResting
    /\ audit.returns = MaxCalls
    /\ audit.last.at = "hit.count"
    /\ lock = [writer |-> 0, readers |-> {}]

\* C40: atomicLimiter.Take terminates. Every call of Take, the first and
\* every later one, by one goroutine or by several at once, leaves its loop
\* and returns.
TakeTerminates ==
    \A g \in 1..NumTakers : (takers[g].pc # "idle") ~> (takers[g].pc = "idle")

\* the first call of Take on the limiter has returned the time it read
TakeTerminatesWitness ==
    \E g \in 1..NumTakers :
        /\ takers[g].pc = "idle" /\ takers[g].calls = 1
        /\ takers[g].ret # 0
        /\ limiter.state.ptr = newStateOf(g, 1)
        /\ limiter.state.val.last = takers[g].ret

(***************************************************************************)
(* Properties of the cache front                                           *)
(***************************************************************************)
KeyMethods == {"Get", "GetWithInfo", "Set", "Append", "Delete"}

\* the shards other than index are the same in the caches c and d
OthersUntouched(c, d, index) ==
    \A i \in DOMAIN c.shards \ {index} : d.shards[i] = c.shards[i]

\* C14: routing.  Every Get, GetWithInfo, Set, Append and Delete works on
\* the shard at index hash(key) & (shards - 1), which for the power of two
\* shards is hash(key) modulo shards and so an index of the shard array; it
\* leaves every other shard as it was, and the array and the mask never
\* change, so that a key goes to the same shard every time.
Routing ==
    [][(bigcache.state = "built") =>
          /\ DOMAIN bigcache'.shards = DOMAIN bigcache.shards
          /\ bigcache'.shardMask = bigcache.shardMask
          /\ (flast'.op \in KeyMethods /\ fsteps' # fsteps) =>
                /\ flast'.index = Sum64(flast'.key) % bigcache.config.Shards
                /\ flast'.index \in DOMAIN bigcache.shards
                /\ flast'.err # "panic"
                /\ OthersUntouched(bigcache, bigcache', flast'.index)]_vars

\* a Set has gone to shard 1 of two while shard 0 holds an entry of its own
RoutingWitness ==
    /\ flast.op = "Set" /\ flast.err = "nil" /\ flast.index = 1
    /\ bigcache.config.Shards = 2
    /\ len(bigcache.shards[0]) = 1
    /\ len(bigcache.shards[1]) = 1

\* the configuration passes every check the construction is said to make
ValidConfig(config) ==
    /\ \E k \in 0..MaxShards : config.Shards = Pow(2, k)
    /\ config.MaxEntrySize >= 0
    /\ config.MaxEntriesInWindow >= 0
    /\ config.HardMaxCacheSize >= 0
    /\ ~(config.CleanWindow > 0 /\ ~(config.LifeWindow > 0))

\* C15: construction validation.  newBigCache returns an error exactly when
\* the shard count is no power of two, or MaxEntrySize, MaxEntriesInWindow
\* or HardMaxCacheSize is negative, or CleanWindow > 0 while LifeWindow is
\* not > 0; with the error it returns no shards and starts no goroutine.
ConstructionValidation ==
    (bigcache.state # "unbuilt") =>
        /\ (bigcache.state = "failed") <=> ~ValidConfig(bigcache.config)
        /\ (bigcache.state = "failed") =>
              (bigcache.shards = NoShards /\ cleaner.pc = "none")

\* newBigCache has refused a configuration and has returned a cache for
\* another: both cases are told by the state reached
ConstructionValidationWitness ==
    /\ bigcache.state = "failed"
    /\ bigcache.config.Shards = 3
    /\ bigcache.config.CleanWindow > 0

\* C16: Close.  No tick of the ticker that fires after Close has returned
\* makes the goroutine run a cleanUp pass.
CloseStopsCleaning ==
    (flast.op = "cleanUp") => ~flast.late

\* Close has returned while the goroutine was inside a cleanUp pass, and a
\* tick has fired since
CloseStopsCleaningWitness ==
    /\ bigcache.closed
    /\ cleaner.pc = "cleaning"
    /\ cleaner.pending /\ cleaner.pendingLate

(***************************************************************************)
(* Properties of the record codec                                          *)
(***************************************************************************)
\* C8: codec round trip.  The frame wrapEntry builds from (timestamp, hash,
\* key, entry) is 18 + len(key) + len(entry) bytes long, and the four
\* readers return from it the timestamp, the hash, the key and the entry.
RoundTrip ==
    (cdc.stage = "wrapped") =>
        /\ Len(cdc.frame) = headersSizeInBytes + Len(cdc.key) + Len(cdc.entry)
        /\ readTimestampFromEntry(cdc.frame) = cdc.timestamp
        /\ readHashFromEntry(cdc.frame) = cdc.hash
        /\ readKeyFromEntry(cdc.frame) = cdc.key
        /\ readEntry(cdc.frame) = cdc.entry


\* the function of the configuration that the closure calls
UserFunction(closure) ==
    CASE closure = "provideOnRemoveWithMetadata" -> "OnRemoveWithMetadata"
      [] closure = "providedOnRemove" -> "OnRemove"
      [] closure = "providedOnRemoveWithReason" -> "OnRemoveWithReason"
      [] OTHER -> "none"

\* the variant by the order no-op, basic, with-reason, with-metadata, the
\* later in the list taking precedence
ListedLast(config) ==
    IF config.OnRemoveWithMetadata THEN "provideOnRemoveWithMetadata"
    ELSE IF config.OnRemoveWithReason THEN "providedOnRemoveWithReason"
    ELSE IF config.OnRemove THEN "providedOnRemove"
    ELSE "notProvideOnRemove"

\* the variant by the same list, the earlier taking precedence among the
\* callbacks that are configured
ListedFirst(config) ==
    IF config.OnRemove THEN "providedOnRemove"
    ELSE IF config.OnRemoveWithReason THEN "providedOnRemoveWithReason"
    ELSE IF config.OnRemoveWithMetadata THEN "provideOnRemoveWithMetadata"
    ELSE "notProvideOnRemove"

\* C21: callback selection.  A cache that was built has one removal
\* closure, the same for its lifetime; each removal makes at most one call
\* of a callback of the configuration, a call of the function that
\* closure stands for; and the closure is the one the order no-op, basic,
\* with-reason, with-metadata gives for the callbacks configured.
CallbackSelection ==
    [][(bigcache'.state = "built") =>
          /\ (bigcache.state = "built") => bigcache'.onRemove = bigcache.onRemove
          /\ Len(flast'.calls) <= flast'.removals
          /\ \A i \in 1..Len(flast'.calls) :
                flast'.calls[i].fn = UserFunction(bigcache'.onRemove)
          /\ bigcache'.onRemove = ListedLast(bigcache'.config)]_vars

\* a Delete on a cache with the basic and the with-reason callback has
\* removed an entry and made one call
CallbackSelectionWitness ==
    /\ bigcache.state = "built"
    /\ bigcache.config.OnRemove /\ bigcache.config.OnRemoveWithReason
    /\ ~bigcache.config.OnRemoveWithMetadata
    /\ flast.op = "Delete" /\ flast.removals = 1
    /\ Len(flast.calls) = 1

(***************************************************************************)
(* Properties of Or                                                        *)
(***************************************************************************)
\* the call under study had two channels or more
OrOfSeveral == Len(orCall.channels) >= 2

\* the channel Or returned is closed
ResultClosed == orCall.result # 0 /\ orChans[orCall.result] = "closed"

\* an input has been closed or has delivered a value to a select of Or
InputFired ==
    \/ orCall.delivered
    \/ \E i \in 1..Len(orCall.channels) : orChans[i] = "closed"

\* input i is closed
InputClosed(i) == i <= Len(orCall.channels) /\ orChans[i] = "closed"

\* C24: Or.  With two inputs or more, the channel Or returns is not closed
\* before an input has been closed or has delivered a value, and once any
\* input is closed the returned channel is eventually closed, whatever the
\* other inputs do.
OrClosesWithInput ==
    /\ [](OrOfSeveral /\ ResultClosed => InputFired)
    /\ \A i \in 1..MaxOrInputs : (OrOfSeveral /\ InputClosed(i)) ~> ResultClosed

\* the fourth input alone has been closed, no value was delivered, and the
\* channel returned by Or is closed
OrClosesWithInputWitness ==
    /\ Len(orCall.channels) >= 4
    /\ ResultClosed
    /\ ~orCall.delivered
    /\ \A i \in 1..Len(orCall.channels) : orChans[i] = "closed" <=> i = 4

(***************************************************************************)
(* Properties of run.Group                                                 *)
(***************************************************************************)
\* Run has returned from a Group of one actor or more
RunReturned == runner.pc = "returned" /\ Len(group.actors) >= 1

\* the execute of every actor has returned
AllExecuted ==
    \A a \in 1..Len(group.actors) : group.actors[a].state \in {"returned", "exited"}

\* Run returned the error of the actor whose execute returned first
ReturnedFirstExit ==
    runner.firstExit # 0 /\ runner.ret = group.actors[runner.firstExit].err

\* every interrupt has been called once, with the error Run returned
InterruptedOnce ==
    \A a \in 1..Len(group.actors) : group.actors[a].told = <<runner.ret>>

\* no interrupt is called before an execute has returned, nor twice
InterruptedInOrder ==
    \A a \in 1..Len(group.actors) :
        /\ group.actors[a].interrupted = Len(group.actors[a].told)
        /\ group.actors[a].interrupted <= 1
        /\ group.actors[a].interrupted = 1 => runner.firstExit # 0

\* C25: Group.Run.  With one actor or more, Run returns only after the
\* execute of every actor has returned; it returns the error of the first
\* actor to exit; and it calls the interrupt of every actor exactly once,
\* with that error, after the first exit.
RunContract ==
    /\ InterruptedInOrder
    /\ RunReturned => AllExecuted /\ InterruptedOnce /\ ReturnedFirstExit

\* Run has returned after two actors exited with errors of their own
RunContractWitness ==
    /\ RunReturned
    /\ Len(group.actors) >= 2
    /\ runner.ret # 0
    /\ \E a \in 1..Len(group.actors) : group.actors[a].err \notin {0, runner.ret}

(***************************************************************************)
(* Properties of the shard under concurrent callers                        *)
(***************************************************************************)
\* the places of the code that write the queue, the hashmap or the counters
\* of the keys, and those that read them
WritePcs == {"write", "del.remove", "clean.run", "hit.count"}
ReadPcs == {"get.find", "get.compare", "get.read", "del.check"}

\* a thread about to write holds the lock exclusively; a thread about to
\* read holds it shared or exclusively; a writer excludes the readers
LockHeld ==
    /\ \A t \in 1..Cleaner :
          /\ threads[t].pc \in WritePcs => lock.writer = t
          /\ threads[t].pc \in ReadPcs => t \in lock.readers \/ lock.writer = t
    /\ lock.writer # 0 => lock.readers = {}

\* the Get that returned last gave a value a Set or an Append stored in full
\* for its key, or an error
GetWhole ==
    audit.last.op = "Get" =>
        IF audit.last.err = "nil"
        THEN audit.last.entry \in audit.written[audit.last.key]
        ELSE audit.last.err \in {"ErrEntryNotFound", "errEmptyQueue", "errInvalidIndex",
                                 "errIndexOutOfBounds"}

\* C23: lock discipline.  Under every interleaving of Get, Set, Append,
\* Delete and the clean-up, the queue, the hashmap and the counters of the
\* keys are written only by the thread that holds the shard's lock
\* exclusively and read only by a thread that holds it; a Get returns a
\* value some Set or Append stored in full for its key, or an error.
LockDiscipline == LockHeld /\ GetWhole

\* a Get has returned a value while another thread was inside a write
LockDisciplineWitness ==
    /\ audit.last.op = "Get" /\ audit.last.err = "nil"
    /\ lock.writer \notin {0, audit.last.thread}
    /\ Cardinality(audit.written[audit.last.key]) >= 2

\* a call of Delete returns in this step
DeleteReturnsNow ==
    audit'.returns # audit.returns /\ audit'.last.op = "Delete"

\* the Delete that returns in this step returns nil after it has removed
\* the one hashmap entry of its hash, which was there when it held the write
\* lock, and has called onRemove once, with the reason Deleted; or it returns
\* an error and leaves the hashmap as it was
DeleteRemovesOne ==
    IF audit'.last.err = "nil"
    THEN /\ lock.writer = audit'.last.thread
         /\ Sum64(audit'.last.key) \in DOMAIN conc.shard.hashmap
         /\ conc'.shard.hashmap = MapDelete(conc.shard.hashmap, Sum64(audit'.last.key))
         /\ Len(audit'.last.removed) = 1
         /\ audit'.last.removed[1].reason = Deleted
    ELSE /\ audit'.last.err # "panic"
         /\ conc'.shard.hashmap = conc.shard.hashmap
         /\ audit'.last.removed = <<>>

\* no Delete of the same hash has returned nil since the last Set or Append
\* of that hash
DeleteNotRepeated ==
    audit'.last.err = "nil" => Sum64(audit'.last.key) \notin audit.deletedNil

\* C22: two-phase delete.  Under every interleaving of Delete, Set, Append
\* and the clean-up on one shard, a Delete returns nil after removing exactly
\* one hashmap entry that existed while it held the write lock and calling
\* the callback once with the reason Deleted, or returns an error and leaves
\* the hashmap unchanged; two Deletes of one key with no Set or Append
\* between them never both return nil.
TwoPhaseDelete ==
    [][DeleteReturnsNow => DeleteRemovesOne /\ DeleteNotRepeated]_vars

\* a Delete that passed its check under the read lock has found, under the
\* write lock, that another Delete had removed the entry
TwoPhaseDeleteWitness ==
    /\ audit.last.op = "Delete"
    /\ audit.last.at = "del.remove"
    /\ audit.last.err = "ErrEntryNotFound"
    /\ conc.shard.stats.DelHits = 1
    /\ Sum64(audit.last.key) \in audit.deletedNil

====
